---------------------------- MODULE Spec2Model ----------------------------
(***************************************************************************)
(* Model of the DOM-to-Markdown conversion pipeline of page-to-markdown.   *)
(*                                                                         *)
(* Strings are sequences of one-character strings, so that the string      *)
(* transforms (slugify, trim, split, replace) are computed character by    *)
(* character as the source computes them.  Characters that have no         *)
(* printable one-letter form are named: "nbsp" is U+00A0, "ldq"/"rdq" are  *)
(* U+201C/U+201D, "lsq"/"rsq" are U+2018/U+2019.                           *)
(***************************************************************************)
EXTENDS Integers, Sequences, FiniteSets, TLC

VARIABLES
    \* ---- generateTOC (convert.ts) ----
    headings,      \* the h1..h6 elements of the root, in document order
    usedSlugs,     \* Map<string, number> of generateTOC
    toc,           \* the TOC lines emitted so far
    tocSlugs,      \* the slug used in the link of each emitted line
    tocPos,        \* index of the next heading the map callback visits
    \* ---- postProcessMarkdown (convert.ts) ----
    ppInput,       \* the Markdown string x
    ppOnce,        \* postProcessMarkdown(x)
    ppTwice,       \* postProcessMarkdown(postProcessMarkdown(x))
    ppStage,       \* number of applications done so far
    \* ---- buildFrontMatter / stripFrontMatter (convert.ts) ----
    fmMeta,        \* the PageMetadata record
    fmBody,        \* the body appended after the front matter
    fmDoc,         \* buildFrontMatter(meta) + "\n\n" + body
    fmResult,      \* what stripFrontMatter returned for fmDoc
    fmStage,       \* "input", "built" or "stripped"
    \* ---- convertFootnotes (convert.ts) ----
    fnRefs,        \* the footnote references of the root, in document order
    fnDefs,        \* target id -> state of the element with that id in the root
    idToLabel,     \* Map<string, string> as its entries <<id, label>>, in insertion order
    idToHtml,      \* Map<string, string>: target id -> captured definition html
    usedLabels,    \* Set<string>
    fnMarkers,     \* per reference: the text node that replaced it, <<>> if none
    supPos,        \* position of supNodes.forEach
    anchorPos,     \* position of anchorNodes.forEach
    footnotes,     \* the returned list of {label, html}
    fnReturned,    \* TRUE once convertFootnotes has returned
    \* ---- cleanContent (convert.ts) ----
    domNodes,      \* the elements below the root el, in document order
    domRemoved,    \* the elements node.remove() has been called on
    removeSelectors, \* the domain-specific selectors passed to cleanContent
    cleanPhase,    \* "selectors", "visit", "images" or "done"
    cleanList,     \* the static NodeList the current forEach walks
    cleanPos,      \* position of that forEach
    \* ---- getMainElement (convert.ts and content_script.ts) ----
    locDoc,        \* the source document: its candidate elements in document order
    locBody,       \* TRUE when doc.body is an element
    locArticle,    \* TRUE when Readability.parse() yields content
    locConfig,     \* the selector of configs[hostname], "none" without a config
    locCaller,     \* which file's getMainElement runs: "convert" or "content_script"
    locResult,     \* what the call did and which root it returned
    locStep,       \* number of normalizer steps applied to the returned root
    docTouched,    \* the nodes of the source document a normalizer has changed
    \* ---- convertToMarkdown (convert.ts) ----
    cvFaults,      \* the steps that throw on this input
    cvHasFootnotes, \* TRUE when renderFootnotes yields a non-empty appendix
    cvPc,          \* index into ConvertSequence of the next step
    cvTrace,       \* the steps that have run to completion, in order
    cvOutcome,     \* "running", "returned" or "threw"
    cvResult,      \* the parts of the returned markdown
    \* ---- window.convertPageToMarkdown (content_script.ts) ----
    pgFaults,      \* the steps that throw on this run
    pgCanonical,   \* what the canonical Markdown lookup yields
    pgClip,        \* how copyToClipboard ends
    pgPc,          \* index into PageSequence of the next step
    pgTrace,       \* the steps entered so far
    pgThrown,      \* the steps that have thrown
    pgWarned,      \* the steps whose exception was caught next to the call
    pgClipboard,   \* "untouched" or "markdown"
    pgToast,       \* the notification shown: "none", "success", "copy-failed", "convert-failed"
    pgLogged,      \* TRUE when the Markdown was written to the console
    pgHeadings,    \* TRUE when the main element holds at least one heading
    pgToc,         \* the toc string: "unset", "empty" or "links"
    pgBody,        \* bodyContent: "unset", "canonical" or "dom"
    pgOutput,      \* the parts joined into finalOutput
    pgCopy,        \* where copyToClipboard is: "idle", "fallback", "true", "false", "threw"
    pgTextarea,   \* the helper textarea: "none", "attached" or "removed"
    \* ---- background runtime message listener (background.ts) ----
    bgVersion,     \* which copy of the listener runs: "part_002" or "background.ts"
    bgMessage,     \* the message's type: "convert-current-tab", "other" or "undefined"
    bgTab,         \* what chrome.tabs.query finds: "none", "noId" or "ok"
    bgFailAt,      \* the chrome call that rejects: "none", "query", "focus", "activate", "inject"
    bgPc,          \* position of the listener and of its async block
    bgReturn,      \* what the listener returned: "pending", "true" or "undefined"
    bgError,       \* the message of the error caught by the async block
    bgConsole,     \* the console.error prefixes logged
    bgResponses,   \* the arguments sendResponse was called with, in order
    \* ---- normalizeLinks (convert.ts) ----
    nlHref,        \* the anchor's href before the call, as [prefix, query]
    nlResult,      \* the anchor's href attribute now
    nlPath,        \* how the callback ended: "none", "skipped", "failed" or "rewritten"
    nlDeleted,   \* paramsToDelete
    \* ---- unwrapHeadingLinks (convert.ts) ----
    uhBefore,      \* the child nodes of the heading before the call
    uhChildren,    \* the child nodes of the heading now
    uhPath,   \* how the callback ended: "none", "count", "tag" or "unwrapped"
    \* ---- describeEmbeddedMedia (convert.ts) ----
    emNodes,       \* the iframe/video/audio elements of the root, in document order
    emSlots,       \* what stands at each element's place now: "media" or a blockquote text
    emPos,         \* index into mediaNodes of the next forEach callback
    emReturned,   \* TRUE once describeEmbeddedMedia has returned
    \* ---- chooseBestSrcFromSrcset (convert.ts) ----
    ssSrcset,      \* the raw srcset attribute value
    ssCandidates,  \* the {url, score} candidates after the map/filter chain
    ssPc,          \* "start", "parsed" or "done"
    ssResult,   \* the returned url, or "null"
    \* ---- escapeYaml inside buildFrontMatter (convert.ts) ----
    eyTexts,       \* two raw metadata values <<x, y>>
    eyEscaped,     \* <<escapeYaml(x), escapeYaml(y)>>
    eyFront,       \* buildFrontMatter of a page with title x, author y, description x
    eyPc,   \* "input" or "built"
    \* ---- buildOutput (convert.ts) ----
    boParts,       \* the arguments <<frontMatter, toc, content>>
    boOutput,      \* what buildOutput returned
    boPc,   \* "input" or "built"
    \* ---- rules.ts: the domain configuration store ----
    rlVersion,     \* which copy of rules.ts runs: "current" (1-120) or "legacy" (122-210)
    rlStored,      \* chrome.storage.sync: whether 'domainConfigs' is set, and its value
    rlCache,       \* the module's domainConfigs object: hostname -> config or "none"
    rlCalls,   \* the calls made so far, each with its position and what it read
    \* ---- convertToMarkdown: body and footnote appendix (convert.ts) ----
    apBody,        \* turndownService.turndown(sanitizedHtml)
    apNotes,       \* the footnote definitions: label and turndown(footnote.html)
    apMarkdown,    \* the markdown field convertToMarkdown returns
    apPc,   \* "rendered" or "returned"
    \* ---- toast.tsx ----
    tsRequested,   \* the toasts requested so far, each with the host state it met
    tsHost,        \* "none", "rendering" (root created, effect not yet run), "mounted", "cleaned"
    tsEnqueue,     \* TRUE when the module variable enqueue holds the callback
    tsPending,     \* pendingQueue
    tsAdded,       \* the toasts handed to manager.add, in call order
    tsTimers,      \* setTimeout(flushQueue, 0) callbacks not yet run
    tsFlushing,    \* TRUE while the loop of flushQueue runs
    tsRemounts     \* effect cleanups so far

tocVars == <<headings, usedSlugs, toc, tocSlugs, tocPos>>
ppVars == <<ppInput, ppOnce, ppTwice, ppStage>>
fmVars == <<fmMeta, fmBody, fmDoc, fmResult, fmStage>>
fnVars == <<fnRefs, fnDefs, idToLabel, idToHtml, usedLabels, fnMarkers, supPos,
            anchorPos, footnotes, fnReturned>>

cleanVars == <<domNodes, domRemoved, removeSelectors, cleanPhase, cleanList, cleanPos>>

locVars == <<locDoc, locBody, locArticle, locConfig, locCaller, locResult, locStep,
             docTouched>>

cvVars == <<cvFaults, cvHasFootnotes, cvPc, cvTrace, cvOutcome, cvResult>>
pgVars == <<pgFaults, pgCanonical, pgClip, pgPc, pgTrace, pgThrown, pgWarned,
            pgClipboard, pgToast, pgLogged, pgHeadings, pgToc, pgBody, pgOutput,
            pgCopy, pgTextarea>>

bgVars == <<bgVersion, bgMessage, bgTab, bgFailAt, bgPc, bgReturn, bgError, bgConsole,
            bgResponses>>

nlVars == <<nlHref, nlResult, nlPath, nlDeleted>>

uhVars == <<uhBefore, uhChildren, uhPath>>

emVars == <<emNodes, emSlots, emPos, emReturned>>

ssVars == <<ssSrcset, ssCandidates, ssPc, ssResult>>

eyVars == <<eyTexts, eyEscaped, eyFront, eyPc>>

boVars == <<boParts, boOutput, boPc>>

rlVars == <<rlVersion, rlStored, rlCache, rlCalls>>

apVars == <<apBody, apNotes, apMarkdown, apPc>>

tsVars == <<tsRequested, tsHost, tsEnqueue, tsPending, tsAdded, tsTimers, tsFlushing, tsRemounts>>

vars == <<tocVars, ppVars, fmVars, fnVars, cleanVars, locVars, cvVars, pgVars, bgVars, nlVars, uhVars, emVars, ssVars, eyVars, boVars, rlVars, apVars, tsVars>>

-----------------------------------------------------------------------------
(* Generic string helpers (JavaScript String.prototype semantics).          *)

\* Characters String.prototype.trim and the regex class \s treat as white space.
WhiteSpace == {" ", "\n", "\r", "\t", "nbsp"}

IsSpace(c) == c \in WhiteSpace

RECURSIVE TrimStart(_)
TrimStart(s) ==
    IF s # <<>> /\ IsSpace(Head(s)) THEN TrimStart(Tail(s)) ELSE s

RECURSIVE TrimEnd(_)
TrimEnd(s) ==
    IF s # <<>> /\ IsSpace(s[Len(s)]) THEN TrimEnd(SubSeq(s, 1, Len(s) - 1)) ELSE s

Trim(s) == TrimEnd(TrimStart(s))

StartsWith(s, p) == Len(s) >= Len(p) /\ SubSeq(s, 1, Len(p)) = p

\* s.split(sep) for a one-character separator: never returns the empty list.
RECURSIVE SplitOn(_, _)
SplitOn(s, sep) ==
    IF \E i \in 1..Len(s) : s[i] = sep
    THEN LET i == CHOOSE k \in 1..Len(s) :
                      s[k] = sep /\ \A j \in 1..(k - 1) : s[j] # sep
         IN  <<SubSeq(s, 1, i - 1)>> \o SplitOn(SubSeq(s, i + 1, Len(s)), sep)
    ELSE <<s>>

\* lines.join(sep) for a string separator.
RECURSIVE JoinWith(_, _)
JoinWith(parts, sep) ==
    IF parts = <<>> THEN <<>>
    ELSE IF Len(parts) = 1 THEN parts[1]
    ELSE parts[1] \o sep \o JoinWith(Tail(parts), sep)

RECURSIVE Repeat(_, _)
Repeat(s, n) == IF n <= 0 THEN <<>> ELSE s \o Repeat(s, n - 1)

Digit(d) == CASE d = 0 -> "0" [] d = 1 -> "1" [] d = 2 -> "2" [] d = 3 -> "3"
              [] d = 4 -> "4" [] d = 5 -> "5" [] d = 6 -> "6" [] d = 7 -> "7"
              [] d = 8 -> "8" [] d = 9 -> "9"

\* String(n) for a non-negative integer: its decimal digits.
RECURSIVE NumToString(_)
NumToString(n) ==
    IF n < 10 THEN <<Digit(n)>> ELSE NumToString(n \div 10) \o <<Digit(n % 10)>>

\* The value NaN of parseInt and parseFloat; every number they read here is >= 0
\* (no input of the model carries a sign).
NaN == -1

DigitChars == {"0", "1", "2", "3", "4", "5", "6", "7", "8", "9"}

DigitValue(c) == CHOOSE d \in 0..9 : Digit(d) = c

RECURSIVE LeadingDigits(_)
LeadingDigits(s) ==
    IF s # <<>> /\ Head(s) \in DigitChars
    THEN <<Head(s)>> \o LeadingDigits(Tail(s)) ELSE <<>>

RECURSIVE DigitsValue(_)
DigitsValue(ds) ==
    IF ds = <<>> THEN 0
    ELSE DigitsValue(SubSeq(ds, 1, Len(ds) - 1)) * 10 + DigitValue(ds[Len(ds)])

\* parseInt(s, 10) for an unsigned s: the value of its leading digits after
\* leading white space, NaN when there is none.
ParseInt(s) ==
    IF LeadingDigits(TrimStart(s)) = <<>> THEN NaN
    ELSE DigitsValue(LeadingDigits(TrimStart(s)))

-----------------------------------------------------------------------------
(* slugify                                                                  *)

UpperCase == {"A", "B", "C", "I"}

ToLowerChar(c) ==
    CASE c = "A" -> "a" [] c = "B" -> "b" [] c = "C" -> "c" [] c = "I" -> "i"
      [] OTHER -> c

ToLowerCase(s) == [i \in 1..Len(s) |-> ToLowerChar(s[i])]

\* The regex class \w: letters, digits and underscore.
WordChars ==
    {"a", "b", "c", "i", "n", "t", "r", "o", "A", "B", "C", "I",
     "0", "1", "2", "3", "4", "5", "6", "7", "8", "9", "_"}

RECURSIVE KeepChars(_, _)
KeepChars(s, keep) ==
    IF s = <<>> THEN <<>>
    ELSE (IF Head(s) \in keep THEN <<Head(s)>> ELSE <<>>) \o KeepChars(Tail(s), keep)

\* s.replace(/[\s_-]+/g, '-'): every maximal run of separators becomes one hyphen.
RECURSIVE CollapseSeparators(_)
CollapseSeparators(s) ==
    LET IsSep(c) == IsSpace(c) \/ c \in {"_", "-"}
    IN  IF s = <<>> THEN <<>>
        ELSE IF IsSep(Head(s))
             THEN IF Len(s) > 1 /\ IsSep(s[2])
                  THEN CollapseSeparators(Tail(s))
                  ELSE <<"-">> \o CollapseSeparators(Tail(s))
             ELSE <<Head(s)>> \o CollapseSeparators(Tail(s))

RECURSIVE StripLeadingHyphens(_)
StripLeadingHyphens(s) ==
    IF s # <<>> /\ Head(s) = "-" THEN StripLeadingHyphens(Tail(s)) ELSE s

RECURSIVE StripTrailingHyphens(_)
StripTrailingHyphens(s) ==
    IF s # <<>> /\ s[Len(s)] = "-"
    THEN StripTrailingHyphens(SubSeq(s, 1, Len(s) - 1)) ELSE s

slugify(text) ==
    LET lowered   == ToLowerCase(text)
        trimmed   == Trim(lowered)
        stripped  == KeepChars(trimmed, WordChars \cup WhiteSpace \cup {"-"})
        collapsed == CollapseSeparators(stripped)
    IN  StripTrailingHyphens(StripLeadingHyphens(collapsed))

-----------------------------------------------------------------------------
(* generateTOC                                                              *)

MaxHeadings == 3

\* Heading levels the model draws from (h1 and h2).
HeadingLevels == {1, 2}

HeadingTexts ==
    { <<"A">>, <<"A", " ", "1">>, <<"?">>, <<" ", "B", " ">> }

\* <<>> is a heading without an id attribute.
HeadingIds == { <<>>, <<"a">>, <<"a", "-", "1">> }

Heading == [level : HeadingLevels, text : HeadingTexts, id : HeadingIds]

HeadingSeqs == UNION { [1..n -> Heading] : n \in 0..MaxHeadings }

\* usedSlugs.get(slug): -1 stands for undefined.
SlugCount(map, slug) == IF slug \in DOMAIN map THEN map[slug] ELSE -1

MapSet(map, key, value) ==
    [k \in DOMAIN map \cup {key} |-> IF k = key THEN value ELSE map[k]]

\* The slug generateTOC's callback starts from: the id, else the slugified text.
BaseSlug(h) == IF h.id # <<>> THEN h.id ELSE slugify(h.text)

\* The slug after collision handling.
DedupedSlug(map, h) ==
    LET slug  == BaseSlug(h)
        count == SlugCount(map, slug)
    IN  IF count # -1 THEN slug \o <<"-">> \o NumToString(count + 1) ELSE slug

TocLine(h, slug) ==
    Repeat(<<" ", " ">>, h.level - 1) \o <<"-", " ", "[">> \o Trim(h.text)
        \o <<"]", "(", "#">> \o slug \o <<")">>

IdleTOC ==
    /\ headings = <<>>
    /\ usedSlugs = <<>>
    /\ toc = <<>>
    /\ tocSlugs = <<>>
    /\ tocPos = 1

StartTOC ==
    /\ headings \in HeadingSeqs
    /\ usedSlugs = <<>>
    /\ toc = <<>>
    /\ tocSlugs = <<>>
    /\ tocPos = 1

\* One call of the map callback of generateTOC, on the heading at tocPos.
GenerateTOCStep ==
    /\ tocPos <= Len(headings)
    /\ LET h     == headings[tocPos]
           base  == BaseSlug(h)
           count == SlugCount(usedSlugs, base)
           slug  == DedupedSlug(usedSlugs, h)
       IN  /\ usedSlugs' = MapSet(usedSlugs, base, IF count # -1 THEN count + 1 ELSE 0)
           /\ headings' = [headings EXCEPT ![tocPos].id =
                               IF h.id = <<>> THEN slug ELSE h.id]
           /\ toc' = Append(toc, TocLine(h, slug))
           /\ tocSlugs' = Append(tocSlugs, slug)
    /\ tocPos' = tocPos + 1

TOCDone == tocPos > Len(headings)

\* C1: generateTOC emits exactly one TOC line per heading, in document order,
\* and the slugs used in the TOC links are pairwise distinct.
C1_OneEntryPerHeadingDistinctSlugs ==
    TOCDone =>
        /\ Len(toc) = Len(headings)
        /\ \A i \in 1..Len(headings) : toc[i] = TocLine(headings[i], tocSlugs[i])
        /\ \A i, j \in 1..Len(tocSlugs) : i # j => tocSlugs[i] # tocSlugs[j]

\* C2: after generateTOC has run, the id attributes of all headings of the root
\* are pairwise distinct.
C2_HeadingIdsDistinct ==
    TOCDone =>
        \A i, j \in 1..Len(headings) : i # j => headings[i].id # headings[j].id

\* C27: after generateTOC, the anchor target of every TOC entry equals the id
\* attribute of the heading the entry is for, also when the heading's own id
\* or slug repeats an earlier one.
C27_TocTargetsAreHeadingIds ==
    TOCDone => \A i \in 1..Len(headings) : tocSlugs[i] = headings[i].id


-----------------------------------------------------------------------------
(* postProcessMarkdown                                                      *)

MaxMarkdownLen == 6

MarkdownChars == {"a", " ", "\n", "ldq", "nbsp"}

MarkdownStrings == UNION { [1..n -> MarkdownChars] : n \in 0..MaxMarkdownLen }

\* s.replace(/\n{3,}/g, '\n\n'): a run of three or more newlines becomes two.
RECURSIVE CollapseBlankLines(_)
CollapseBlankLines(s) ==
    LET RunLen == CHOOSE n \in 0..Len(s) :
                      /\ \A i \in 1..n : s[i] = "\n"
                      /\ (n < Len(s) => s[n + 1] # "\n")
    IN  IF s = <<>> THEN <<>>
        ELSE IF RunLen = 0 THEN <<Head(s)>> \o CollapseBlankLines(Tail(s))
        ELSE (IF RunLen >= 3 THEN <<"\n", "\n">> ELSE SubSeq(s, 1, RunLen))
                 \o CollapseBlankLines(SubSeq(s, RunLen + 1, Len(s)))

\* s.replace(/[set]/g, to) for a one-character replacement.
MapChars(s, set, to) == [i \in 1..Len(s) |-> IF s[i] \in set THEN to ELSE s[i]]

TrimLineEnds(s) ==
    LET lines == SplitOn(s, "\n")
    IN  JoinWith([i \in 1..Len(lines) |-> TrimEnd(lines[i])], <<"\n">>)

postProcessMarkdown(markdown) ==
    LET collapsed == CollapseBlankLines(markdown)
        dquoted   == MapChars(collapsed, {"ldq", "rdq"}, "\"")
        squoted   == MapChars(dquoted, {"lsq", "rsq"}, "'")
        spaced    == MapChars(squoted, {"nbsp"}, " ")
    IN  Trim(TrimLineEnds(spaced))

IdlePP ==
    /\ ppInput = <<>>
    /\ ppOnce = <<>>
    /\ ppTwice = <<>>
    /\ ppStage = 0

StartPP ==
    /\ ppInput \in MarkdownStrings
    /\ ppOnce = <<>>
    /\ ppTwice = <<>>
    /\ ppStage = 0

PostProcessOnce ==
    /\ ppStage = 0
    /\ ppOnce' = postProcessMarkdown(ppInput)
    /\ ppStage' = 1
    /\ UNCHANGED <<ppInput, ppTwice>>

PostProcessAgain ==
    /\ ppStage = 1
    /\ ppTwice' = postProcessMarkdown(ppOnce)
    /\ ppStage' = 2
    /\ UNCHANGED <<ppInput, ppOnce>>

\* C3: postProcessMarkdown is idempotent: applying it to its own output
\* changes nothing.
C3_PostProcessIdempotent == ppStage = 2 => ppTwice = ppOnce

-----------------------------------------------------------------------------
(* escapeYaml, buildFrontMatter, stripFrontMatter                           *)

\* s.replace(/c/g, rep) for a one-character pattern and a string replacement.
RECURSIVE ReplaceChar(_, _, _)
ReplaceChar(s, c, rep) ==
    IF s = <<>> THEN <<>>
    ELSE (IF Head(s) = c THEN rep ELSE <<Head(s)>>) \o ReplaceChar(Tail(s), c, rep)

\* escapeYaml with the backslash rewrite left out.
escapeYamlKeepingBackslash(value) ==
    LET r2 == ReplaceChar(value, "\"", <<"\\", "\"">>)
        r3 == ReplaceChar(r2, "\n", <<"\\", "n">>)
        r4 == ReplaceChar(r3, "\r", <<"\\", "r">>)
    IN  ReplaceChar(r4, "\t", <<"\\", "t">>)

escapeYaml(value) ==
    LET r1 == ReplaceChar(value, "\\", <<"\\", "\\">>)
        r2 == ReplaceChar(r1, "\"", <<"\\", "\"">>)
        r3 == ReplaceChar(r2, "\n", <<"\\", "n">>)
        r4 == ReplaceChar(r3, "\r", <<"\\", "r">>)
    IN  ReplaceChar(r4, "\t", <<"\\", "t">>)

buildFrontMatter(meta) ==
    <<"-", "-", "-", "\n", "t", "i", "t", "l", "e", ":", " ", "\"">>
        \o escapeYaml(meta.title)
        \o <<"\"", "\n", "s", "o", "u", "r", "c", "e", ":", " ", "\"">>
        \o meta.source
        \o <<"\"", "\n", "r", "e", "t", "r", "i", "e", "v", "e", "d", ":", " ", "\"">>
        \o meta.retrieved
        \o <<"\"", "\n", "a", "u", "t", "h", "o", "r", ":", " ", "\"">>
        \o escapeYaml(meta.author)
        \o <<"\"", "\n", "d", "e", "s", "c", "r", "i", "p", "t", "i", "o", "n",
             ":", " ", "\"">>
        \o escapeYaml(meta.description)
        \o <<"\"", "\n", "t", "a", "g", "s", ":", " ", "[", "]", "\n",
             "t", "o", "c", ":", " ", "t", "r", "u", "e", "\n", "-", "-", "-">>

\* s.split(/\r?\n/): split at every newline; a carriage return right before the
\* newline belongs to the separator.
SplitLines(s) ==
    LET raw == SplitOn(s, "\n")
        DropCR(l) == IF l # <<>> /\ l[Len(l)] = "\r" THEN SubSeq(l, 1, Len(l) - 1) ELSE l
    IN  [i \in 1..Len(raw) |-> IF i < Len(raw) THEN DropCR(raw[i]) ELSE raw[i]]

Dashes == <<"-", "-", "-">>

\* The index (1-based) of the first line after the first that is '---' once
\* trimmed, or 0 when there is none (closingIndex = -1 in the source).
ClosingIndex(lines) ==
    IF \E i \in 2..Len(lines) : Trim(lines[i]) = Dashes
    THEN CHOOSE i \in 2..Len(lines) :
             /\ Trim(lines[i]) = Dashes
             /\ \A j \in 2..(i - 1) : Trim(lines[j]) # Dashes
    ELSE 0

\* found = FALSE stands for frontMatter: null.
stripFrontMatter(markdown) ==
    LET trimmed == TrimStart(markdown)
        lines   == SplitLines(trimmed)
        closing == ClosingIndex(lines)
    IN  IF ~StartsWith(trimmed, Dashes) \/ closing = 0
        THEN [found |-> FALSE, frontMatter |-> <<>>, content |-> Trim(markdown)]
        ELSE [found |-> TRUE,
              frontMatter |-> JoinWith(SubSeq(lines, 1, closing), <<"\n">>),
              content |-> Trim(JoinWith(SubSeq(lines, closing + 1, Len(lines)),
                                        <<"\n">>))]

\* Free-text metadata values the model draws from.
MetaTexts == { <<>>, <<"t">>, <<"a", "\"", "b">>, <<"a", "\n", "-", "-", "-", "\n", "b">> }

\* source and retrieved are a URL and an ISO timestamp.
MetaUrls == { <<"u">> }

PageMetadata ==
    [title : MetaTexts, source : MetaUrls, author : MetaTexts,
     description : MetaTexts \ {<<"t">>}, retrieved : { <<"r">> }]

\* Bodies without leading or trailing white space.
Bodies ==
    { <<"b">>,
      <<"a", "\n", "b">>,
      <<"a", "\n", "\n", "b">>,
      <<"a", "\r", "\n", "b">>,
      <<"a", "\n", "-", "-", "-", "\n", "b">>,
      <<"-", "-", "-">>,
      <<"-", "-", "-", "\n", "b">> }

NoResult == [found |-> FALSE, frontMatter |-> <<>>, content |-> <<>>]

IdleFM ==
    /\ fmMeta = [title |-> <<>>, source |-> <<>>, author |-> <<>>,
                 description |-> <<>>, retrieved |-> <<>>]
    /\ fmBody = <<>>
    /\ fmDoc = <<>>
    /\ fmResult = NoResult
    /\ fmStage = "input"

StartFM ==
    /\ fmMeta \in PageMetadata
    /\ fmBody \in Bodies
    /\ fmDoc = <<>>
    /\ fmResult = NoResult
    /\ fmStage = "input"

\* buildFrontMatter(meta) + "\n\n" + BODY
BuildDocument ==
    /\ fmStage = "input"
    /\ fmDoc' = buildFrontMatter(fmMeta) \o <<"\n", "\n">> \o fmBody
    /\ fmStage' = "built"
    /\ UNCHANGED <<fmMeta, fmBody, fmResult>>

StripDocument ==
    /\ fmStage = "built"
    /\ fmResult' = stripFrontMatter(fmDoc)
    /\ fmStage' = "stripped"
    /\ UNCHANGED <<fmMeta, fmBody, fmDoc>>

\* C4: stripFrontMatter(buildFrontMatter(meta) + "\n\n" + BODY).content equals
\* BODY exactly, for every body without leading or trailing white space.
C4_FrontMatterRoundTrip == fmStage = "stripped" => fmResult.content = fmBody

-----------------------------------------------------------------------------
(* convertFootnotes                                                         *)

MaxRefs == 3

\* Ids a reference can point at; <<>> is what extractTargetId returns for a
\* href without a usable hash.
TargetIds == { <<"f", "1">>, <<"f", "2">> }

\* Visible text of a reference anchor.
RefTexts == { <<>>, <<"1">>, <<"[", "2", "]">> }

\* kind "sup": a <sup> wrapping an a[href]; kind "anchor": a bare anchor matching
\* a[role="doc-noteref"], a[data-footnote-ref], a.footnote-ref or a.fnref.
\* The text of a reference is read only after its target id was found usable, so
\* references without one are taken with empty text.
FootnoteRef ==
    [kind : {"sup", "anchor"}, target : TargetIds, text : RefTexts]
        \cup [kind : {"sup", "anchor"}, target : {<<>>}, text : {<<>>}]

RefSeqs == UNION { [1..n -> FootnoteRef] : n \in 0..MaxRefs }

\* "none": no element with that id in the root; "empty": an element whose
\* sanitized inner HTML is empty; "html": an element with content; "removed":
\* the element has been taken out of the tree by registerFootnote.
DefStates == {"none", "empty", "html"}

\* The definition elements the model starts from: the first target in any
\* state, the second one absent or with content.
DefConfigs == { d \in [TargetIds -> DefStates] : d[<<"f", "2">>] # "empty" }

\* The indices of the references of one kind, in document order.
RECURSIVE IndicesOfKind(_, _, _)
IndicesOfKind(refs, kind, from) ==
    IF from > Len(refs) THEN <<>>
    ELSE (IF refs[from].kind = kind THEN <<from>> ELSE <<>>)
             \o IndicesOfKind(refs, kind, from + 1)

supNodes == IndicesOfKind(fnRefs, "sup", 1)

anchorNodes == IndicesOfKind(fnRefs, "anchor", 1)

\* anchor.textContent.trim().replace(/^\[|\]$/g, '')
RawLabel(text) ==
    LET trimmed == Trim(text)
        noOpen  == IF trimmed # <<>> /\ Head(trimmed) = "[" THEN Tail(trimmed) ELSE trimmed
    IN  IF noOpen # <<>> /\ noOpen[Len(noOpen)] = "]"
        THEN SubSeq(noOpen, 1, Len(noOpen) - 1) ELSE noOpen

\* A variant of NextCounter without the while loop.
NextCounterNoLoop(used, counter) == counter

\* let counter = usedLabels.size + 1; while (usedLabels.has(String(counter))) counter += 1
RECURSIVE NextCounter(_, _)
NextCounter(used, counter) ==
    IF NumToString(counter) \in used THEN NextCounter(used, counter + 1) ELSE counter

\* A variant of LabelFor that never checks the candidate against usedLabels.
LabelForUnchecked(text, used) ==
    IF RawLabel(text) = <<>>
    THEN NumToString(NextCounter(used, Cardinality(used) + 1))
    ELSE RawLabel(text)

\* The label registerFootnote assigns to a target id it sees for the first time.
LabelFor(text, used) ==
    LET rawLabel == RawLabel(text)
    IN  IF rawLabel = <<>> \/ rawLabel \in used
        THEN NumToString(NextCounter(used, Cardinality(used) + 1))
        ELSE rawLabel

HasLabel(map, id) == \E i \in 1..Len(map) : map[i][1] = id

\* idToLabel.get(id), for an id that is a key.
GetLabel(map, id) == map[CHOOSE i \in 1..Len(map) : map[i][1] = id][2]

Marker(label) == <<"[", "^">> \o label \o <<"]">>

IdleFN ==
    /\ fnRefs = <<>>
    /\ fnDefs = [id \in TargetIds |-> "none"]
    /\ idToLabel = <<>>
    /\ idToHtml = {}
    /\ usedLabels = {}
    /\ fnMarkers = <<>>
    /\ supPos = 1
    /\ anchorPos = 1
    /\ footnotes = <<>>
    /\ fnReturned = FALSE

StartFN ==
    /\ fnRefs \in RefSeqs
    /\ fnDefs \in DefConfigs
    /\ idToLabel = <<>>
    /\ idToHtml = {}
    /\ usedLabels = {}
    /\ fnMarkers = [i \in 1..Len(fnRefs) |-> <<>>]
    /\ supPos = 1
    /\ anchorPos = 1
    /\ footnotes = <<>>
    /\ fnReturned = FALSE

\* registerFootnote(targetId, anchor) for reference i, followed by the caller's
\* replaceWith when a label came back.
RegisterAndReplace(i) ==
    LET ref   == fnRefs[i]
        id    == ref.target
        isNew == id # <<>> /\ ~HasLabel(idToLabel, id)
        label == LabelFor(ref.text, usedLabels)
    IN  /\ usedLabels' = IF isNew THEN usedLabels \cup {label} ELSE usedLabels
        /\ idToLabel' = IF isNew THEN Append(idToLabel, <<id, label>>) ELSE idToLabel
        /\ idToHtml' = IF isNew /\ fnDefs[id] = "html" THEN idToHtml \cup {id} ELSE idToHtml
        /\ fnDefs' = IF isNew /\ fnDefs[id] \in {"empty", "html"}
                     THEN [fnDefs EXCEPT ![id] = "removed"] ELSE fnDefs
        /\ fnMarkers' = IF id = <<>> THEN fnMarkers
                        ELSE [fnMarkers EXCEPT ![i] = Marker(GetLabel(idToLabel', id))]

\* One call of the supNodes.forEach callback.
ProcessSup ==
    /\ ~fnReturned
    /\ supPos <= Len(supNodes)
    /\ RegisterAndReplace(supNodes[supPos])
    /\ supPos' = supPos + 1
    /\ UNCHANGED <<fnRefs, anchorPos, footnotes, fnReturned>>

\* One call of the anchorNodes.forEach callback; it runs after the sup pass.
ProcessAnchor ==
    /\ ~fnReturned
    /\ supPos > Len(supNodes)
    /\ anchorPos <= Len(anchorNodes)
    /\ RegisterAndReplace(anchorNodes[anchorPos])
    /\ anchorPos' = anchorPos + 1
    /\ UNCHANGED <<fnRefs, supPos, footnotes, fnReturned>>

\* A variant of CollectedFootnotes that pushes an entry for every label.
CollectedFootnotesUnfiltered(map, htmlIds) ==
    [i \in 1..Len(map) |-> [label |-> map[i][2], html |-> map[i][1]]]

\* idToLabel.forEach(...): the entries that have captured html, in insertion order.
RECURSIVE CollectedFootnotes(_, _)
CollectedFootnotes(map, htmlIds) ==
    IF map = <<>> THEN <<>>
    ELSE (IF map[1][1] \in htmlIds
          THEN <<[label |-> map[1][2], html |-> map[1][1]]>> ELSE <<>>)
             \o CollectedFootnotes(Tail(map), htmlIds)

ReturnFootnotes ==
    /\ ~fnReturned
    /\ supPos > Len(supNodes)
    /\ anchorPos > Len(anchorNodes)
    /\ footnotes' = CollectedFootnotes(idToLabel, idToHtml)
    /\ fnReturned' = TRUE
    /\ UNCHANGED <<fnRefs, fnDefs, idToLabel, idToHtml, usedLabels, fnMarkers,
                   supPos, anchorPos>>

\* C5: within one convertFootnotes run no two target ids are mapped to the same
\* label, the labels of idToLabel are exactly usedLabels, and every replaced
\* reference carries the marker of the label of its target id.
C5_FootnoteLabelsUnique ==
    /\ \A i, j \in 1..Len(idToLabel) :
           i # j => idToLabel[i][1] # idToLabel[j][1] /\ idToLabel[i][2] # idToLabel[j][2]
    /\ { idToLabel[i][2] : i \in 1..Len(idToLabel) } = usedLabels
    /\ \A i \in 1..Len(fnMarkers) :
           fnMarkers[i] # <<>> =>
               /\ HasLabel(idToLabel, fnRefs[i].target)
               /\ fnMarkers[i] = Marker(GetLabel(idToLabel, fnRefs[i].target))
    /\ \A i, j \in 1..Len(fnMarkers) :
           (fnMarkers[i] # <<>> /\ fnMarkers[j] # <<>>
                /\ fnRefs[i].target = fnRefs[j].target) => fnMarkers[i] = fnMarkers[j]

\* Two targets whose references show the same text were both registered, and
\* one target was referenced twice.
C5_Witness ==
    /\ fnReturned
    /\ \E i, j \in 1..Len(fnRefs) :
           /\ fnRefs[i].target # <<>> /\ fnRefs[j].target # <<>>
           /\ fnRefs[i].target # fnRefs[j].target
           /\ RawLabel(fnRefs[i].text) = RawLabel(fnRefs[j].text)
           /\ RawLabel(fnRefs[i].text) # <<>>
    /\ \E i, j \in 1..Len(fnRefs) :
           i # j /\ fnRefs[i].target = fnRefs[j].target /\ fnMarkers[i] # <<>>
               /\ fnMarkers[j] # <<>>

\* The index in fnRefs of the first reference, in document order, to a target.
FirstAppearance(id) ==
    CHOOSE i \in 1..Len(fnRefs) :
        fnRefs[i].target = id /\ \A j \in 1..(i - 1) : fnRefs[j].target # id

\* C16: the list returned by convertFootnotes is ordered by the first
\* appearance in the document of a reference to each footnote, for every mix of
\* <sup>-wrapped references and bare footnote-reference anchors.
C16_FootnotesInDocumentOrder ==
    fnReturned =>
        \A a, b \in 1..Len(footnotes) :
            a < b => FirstAppearance(footnotes[a].html) < FirstAppearance(footnotes[b].html)

\* The reference whose callback registered a target: the first one to it in the
\* order the callbacks ran.
C17_RegisteringRef(id) ==
    LET order == supNodes \o anchorNodes
        k == CHOOSE n \in 1..Len(order) :
                 fnRefs[order[n]].target = id
                     /\ \A m \in 1..(n - 1) : fnRefs[order[m]].target # id
    IN  fnRefs[order[k]]

\* The labels handed out before the i-th registration.
C17_UsedBefore(i) == { idToLabel[j][2] : j \in 1..(i - 1) }

C17_StrippedText(i) == RawLabel(C17_RegisteringRef(idToLabel[i][1]).text)

C17_TextIsFree(i) ==
    C17_StrippedText(i) # <<>> /\ C17_StrippedText(i) \notin C17_UsedBefore(i)

C17_SmallestUnusedFrom(used, start) ==
    CHOOSE n \in start..(start + Cardinality(used)) :
        /\ NumToString(n) \notin used
        /\ \A m \in start..(n - 1) : NumToString(m) \in used

\* C17 as stated: a target id seen for the first time is labelled with the
\* reference's visible text, brackets stripped, if that is non-empty and not
\* already used; otherwise with the decimal string of the smallest positive
\* integer not already used as a label in this conversion.
C17_LabelSmallestUnusedInteger ==
    \A i \in 1..Len(idToLabel) :
        idToLabel[i][2] =
            IF C17_TextIsFree(i) THEN C17_StrippedText(i)
            ELSE NumToString(C17_SmallestUnusedFrom(C17_UsedBefore(i), 1))

\* C17 amended: a target id seen for the first time is labelled with the
\* reference's visible text, brackets stripped, if that is non-empty and not
\* already used; otherwise with the decimal string of the smallest integer
\* greater than the number of labels already used that is not itself used.
C17_LabelNextUnusedInteger ==
    \A i \in 1..Len(idToLabel) :
        idToLabel[i][2] =
            IF C17_TextIsFree(i) THEN C17_StrippedText(i)
            ELSE NumToString(C17_SmallestUnusedFrom(C17_UsedBefore(i),
                                                    Cardinality(C17_UsedBefore(i)) + 1))

\* A reference without usable text was registered after the label "2" had been
\* taken by an earlier one, so the counter had to step over it.
C17_Witness ==
    \E i \in 2..Len(idToLabel) :
        /\ ~C17_TextIsFree(i)
        /\ C17_UsedBefore(i) = { <<"2">> }
        /\ idToLabel[i][2] = <<"3">>

\* C18: a reference whose target id matches no element in the root is still
\* replaced by a [^label] marker and keeps its label to itself, but adds no
\* entry to the returned list; and every returned entry carries a label that
\* was assigned to exactly one target id, whose definition element was found
\* and removed from the tree.
C18_UndefinedTargetsDropped ==
    fnReturned =>
        /\ \A i \in 1..Len(fnRefs) :
               (fnRefs[i].target # <<>> /\ fnDefs[fnRefs[i].target] = "none") =>
                   /\ HasLabel(idToLabel, fnRefs[i].target)
                   /\ fnMarkers[i] = Marker(GetLabel(idToLabel, fnRefs[i].target))
                   /\ GetLabel(idToLabel, fnRefs[i].target) \in usedLabels
                   /\ \A k \in 1..Len(footnotes) :
                          /\ footnotes[k].html # fnRefs[i].target
                          /\ footnotes[k].label # GetLabel(idToLabel, fnRefs[i].target)
        /\ \A k \in 1..Len(footnotes) :
               /\ Cardinality({ j \in 1..Len(idToLabel) :
                                    idToLabel[j][2] = footnotes[k].label }) = 1
               /\ \E j \in 1..Len(idToLabel) :
                      /\ idToLabel[j] = <<footnotes[k].html, footnotes[k].label>>
                      /\ fnDefs[idToLabel[j][1]] = "removed"

\* One reference pointed at an id with no element and another at a definition
\* that was extracted.
C18_Witness ==
    /\ fnReturned
    /\ Len(footnotes) = 1
    /\ \E i \in 1..Len(fnRefs) :
           /\ fnRefs[i].target # <<>>
           /\ fnDefs[fnRefs[i].target] = "none"
           /\ fnMarkers[i] # <<>>

-----------------------------------------------------------------------------
(* cleanContent                                                             *)

MaxNodes == 2

\* Width and height attributes of an image as getAttribute returns them:
\* present is FALSE when getAttribute returns null, value is the text otherwise.
NoAttr == [present |-> FALSE, value |-> <<>>]

Attr(text) == [present |-> TRUE, value |-> text]

\* The <<width, height>> pairs images carry: both small, one at the limit, one
\* missing, one 0, one not a number, none.
ImgDims ==
    {<<Attr(<<"3", "1">>), Attr(<<"3", "1">>)>>,
     <<Attr(<<"3", "1">>), Attr(<<"3", "2">>)>>,
     <<Attr(<<"3", "2">>), Attr(<<"3", "1">>)>>,
     <<Attr(<<"3", "1">>), NoAttr>>,
     <<NoAttr, Attr(<<"3", "1">>)>>,
     <<Attr(<<"0">>), Attr(<<"3", "1">>)>>,
     <<Attr(<<"3", "1">>), Attr(<<"0">>)>>,
     <<Attr(<<"p", "x">>), Attr(<<"3", "1">>)>>,
     <<NoAttr, NoAttr>>}

TinyImageLimit == 32

\* Tag names exempt from the hidden and emptiness checks.
mediaTags == {"IMG", "VIDEO", "AUDIO", "PICTURE", "SOURCE"}

\* An element below the root.  parent = 0 is the root itself.  "NAV" matches a
\* default remove selector, "JUNK" is a div matching the domain selector
\* ".junk".  hidden is TRUE when the element has the hidden attribute,
\* aria-hidden="true", or inline display:none / visibility:hidden.  text is TRUE
\* when the element has a child text node that is not white space only.
DivNodes(i) ==
    [tag : {"DIV"}, parent : 0..(i - 1), hidden : BOOLEAN, text : BOOLEAN,
     width : {NoAttr}, height : {NoAttr}]

ImgNodes(i) ==
    {[tag |-> "IMG", parent |-> p, hidden |-> FALSE, text |-> FALSE,
      width |-> d[1], height |-> d[2]] : p \in 0..(i - 1), d \in ImgDims}

NoiseNodes(i) ==
    [tag : {"NAV", "JUNK"}, parent : 0..(i - 1), hidden : {FALSE}, text : {TRUE},
     width : {NoAttr}, height : {NoAttr}]

NodesAt(i) == DivNodes(i) \cup ImgNodes(i) \cup NoiseNodes(i)

RECURSIVE Ancestors(_, _)
Ancestors(nodes, i) ==
    IF i = 0 \/ nodes[i].parent = 0 THEN {}
    ELSE {nodes[i].parent} \cup Ancestors(nodes, nodes[i].parent)

\* Document order is preorder: the parent of node i is node i - 1 or one of its
\* ancestors (or the root); an image has no children.
WellFormed(nodes) ==
    \A i \in 1..Len(nodes) :
        /\ nodes[i] \in NodesAt(i)
        /\ nodes[i].parent # 0 =>
               /\ nodes[nodes[i].parent].tag # "IMG"
               /\ nodes[i].parent \in {i - 1} \cup Ancestors(nodes, i - 1)

DomTrees ==
    UNION { { t \in [1..n -> UNION { NodesAt(i) : i \in 1..n }] : WellFormed(t) }
            : n \in 0..MaxNodes }

\* node is still connected to the root: remove() was called neither on it nor
\* on an ancestor.
InTree(nodes, removed, i) ==
    i \notin removed /\ Ancestors(nodes, i) \cap removed = {}

\* The descendants element i currently has (whether or not i itself is still
\* connected to the root).
Descendants(nodes, removed, i) ==
    { j \in 1..Len(nodes) :
        /\ i \in Ancestors(nodes, j)
        /\ j \notin removed
        /\ \A a \in Ancestors(nodes, j) :
               (a \in removed) => (a = i \/ a \in Ancestors(nodes, i)) }

\* element.textContent?.trim() is non-empty
HasText(nodes, removed, i) ==
    nodes[i].text \/ \E j \in Descendants(nodes, removed, i) : nodes[j].text

\* element.querySelectorAll('img, video, audio').length > 0
HasMedia(nodes, removed, i) ==
    \E j \in Descendants(nodes, removed, i) : nodes[j].tag \in {"IMG", "VIDEO", "AUDIO"}

\* el.querySelectorAll(selector) as a static list in document order.
\* The two selectors cleanContent queries with are '*' and 'img'.
RECURSIVE QueryAll(_, _, _, _)
QueryAll(nodes, removed, selector, from) ==
    IF from > Len(nodes) THEN <<>>
    ELSE (IF InTree(nodes, removed, from) /\ (selector = "*" \/ nodes[from].tag = "IMG")
          THEN <<from>> ELSE <<>>)
             \o QueryAll(nodes, removed, selector, from + 1)

MatchesRemoveSelector(node, domainSelectors) ==
    \/ node.tag = "NAV"
    \/ node.tag = "JUNK" /\ ".junk" \in domainSelectors

\* parseInt(img.getAttribute(name) || '0', 10)
ParsedDimension(attr) ==
    ParseInt(IF ~attr.present \/ attr.value = <<>> THEN <<"0">> ELSE attr.value)

\* w > 0 && w < 32 for one dimension only; every comparison with NaN is false.
InTinyRange(n) == n # NaN /\ n > 0 /\ n < TinyImageLimit

IsTinyImageEitherDimension(node) ==
    \/ InTinyRange(ParsedDimension(node.width))
    \/ InTinyRange(ParsedDimension(node.height))

IsTinyImage(node) ==
    /\ InTinyRange(ParsedDimension(node.width))
    /\ InTinyRange(ParsedDimension(node.height))

IdleClean ==
    /\ domNodes = <<>>
    /\ domRemoved = {}
    /\ removeSelectors = {}
    /\ cleanPhase = "selectors"
    /\ cleanList = <<>>
    /\ cleanPos = 1

StartClean ==
    /\ domNodes \in DomTrees
    /\ domRemoved = {}
    /\ removeSelectors \in {{}, {".junk"}}
    /\ cleanPhase = "selectors"
    /\ cleanList = <<>>
    /\ cleanPos = 1

\* allRemoveSelectors.forEach(...): every match of a default or domain selector
\* is removed; then the static list of the element pass is taken.
RemoveBySelectors ==
    /\ cleanPhase = "selectors"
    /\ LET Noise(node) == MatchesRemoveSelector(node, removeSelectors)
           gone        == { i \in 1..Len(domNodes) :
                              InTree(domNodes, {}, i) /\ Noise(domNodes[i]) }
       IN  /\ domRemoved' = domRemoved \cup gone
           /\ cleanList' = QueryAll(domNodes, domRemoved', "*", 1)
    /\ cleanPhase' = "visit"
    /\ cleanPos' = 1
    /\ UNCHANGED <<domNodes, removeSelectors>>

\* The element the pass is at is removed by the callback.
VisitRemoves(i) ==
    /\ domNodes[i].tag \notin mediaTags
    /\ \/ domNodes[i].hidden
       \/ ~HasText(domNodes, domRemoved, i) /\ ~HasMedia(domNodes, domRemoved, i)

\* One call of the el.querySelectorAll('*').forEach callback.  After the last
\* one the static list of the image pass is taken.
VisitElement ==
    /\ cleanPhase = "visit"
    /\ cleanPos <= Len(cleanList)
    /\ LET i      == cleanList[cleanPos]
       IN  /\ domRemoved' = IF VisitRemoves(i) THEN domRemoved \cup {i} ELSE domRemoved
           /\ IF cleanPos = Len(cleanList)
              THEN /\ cleanPhase' = "images"
                   /\ cleanList' = QueryAll(domNodes, domRemoved', "img", 1)
                   /\ cleanPos' = 1
              ELSE /\ cleanPos' = cleanPos + 1
                   /\ UNCHANGED <<cleanPhase, cleanList>>
    /\ UNCHANGED <<domNodes, removeSelectors>>

\* The element pass has nothing to walk.
VisitNothing ==
    /\ cleanPhase = "visit"
    /\ cleanList = <<>>
    /\ cleanPhase' = "images"
    /\ cleanPos' = 1
    /\ UNCHANGED <<domNodes, domRemoved, removeSelectors, cleanList>>

\* One call of the el.querySelectorAll('img').forEach callback.
VisitImage ==
    /\ cleanPhase = "images"
    /\ cleanPos <= Len(cleanList)
    /\ LET i == cleanList[cleanPos]
       IN  domRemoved' = IF IsTinyImage(domNodes[i]) THEN domRemoved \cup {i}
                         ELSE domRemoved
    /\ cleanPos' = cleanPos + 1
    /\ UNCHANGED <<domNodes, removeSelectors, cleanPhase, cleanList>>

CleanReturns ==
    /\ cleanPhase = "images"
    /\ cleanPos > Len(cleanList)
    /\ cleanPhase' = "done"
    /\ UNCHANGED <<domNodes, domRemoved, removeSelectors, cleanList, cleanPos>>

\* C6: after cleanContent returns, the root contains no non-media element that
\* is hidden and no non-media element that has neither text content nor an
\* img/video/audio descendant.
C6_NoHiddenOrEmptyLeft ==
    cleanPhase = "done" =>
        \A i \in 1..Len(domNodes) :
            (InTree(domNodes, domRemoved, i) /\ domNodes[i].tag \notin mediaTags) =>
                /\ ~domNodes[i].hidden
                /\ HasText(domNodes, domRemoved, i) \/ HasMedia(domNodes, domRemoved, i)

\* The attribute is present and is written as an integer from 1 to 31.
ExplicitSmallDimension(attr) ==
    /\ attr.present
    /\ attr.value # <<>>
    /\ \A k \in 1..Len(attr.value) : attr.value[k] \in DigitChars
    /\ DigitsValue(attr.value) \in 1..31

-----------------------------------------------------------------------------
(* getMainElement                                                           *)

\* Elements of the source document a selector of the fallback chain can match:
\* a <main>, an <article>, and an element of class "post".
DocElems == {"main", "article", "post"}

\* The documents: every arrangement of some of these elements in document order.
Docs ==
    { d \in UNION { [1..n -> DocElems] : n \in 0..Cardinality(DocElems) } :
        \A i, j \in 1..Len(d) : i # j => d[i] # d[j] }

\* Selector strings a domain configuration can hold; "div[" is not valid CSS.
ConfigSelectors == {"main", ".post", "div["}

InvalidSelectors == {"div["}

SelectorMatches(selector, elem) ==
    CASE selector = "main" -> elem = "main"
      [] selector = ".post" -> elem = "post"
      [] selector = "article, main" -> elem \in {"article", "main"}
      [] OTHER -> FALSE

\* doc.querySelector(selector): "throws" for a selector that is not valid CSS
\* (SyntaxError), else the first match in document order, else "null".
QuerySelector(doc, selector) ==
    IF selector \in InvalidSelectors THEN "throws"
    ELSE IF \E i \in 1..Len(doc) : SelectorMatches(selector, doc[i])
    THEN doc[CHOOSE i \in 1..Len(doc) :
                 /\ SelectorMatches(selector, doc[i])
                 /\ \A j \in 1..(i - 1) : ~SelectorMatches(selector, doc[j])]
    ELSE "null"

\* let selector = 'main'; if (configs[hostname]) selector = configs[hostname].selector
ChosenSelector(config) == IF config = "none" THEN "main" ELSE config

\* (doc.querySelector(selector)) || (doc.querySelector('article, main')) || doc.body
\* "throws" when a querySelector call throws, "null" when all three are null.
LiveElement(doc, body, config) ==
    LET first  == QuerySelector(doc, ChosenSelector(config))
        second == QuerySelector(doc, "article, main")
    IN  IF first = "throws" THEN "throws"
        ELSE IF first # "null" THEN first
        ELSE IF second # "null" THEN second
        ELSE IF body THEN "body" ELSE "null"

Threw == [outcome |-> "threw", live |-> FALSE, of |-> "none"]

Returned(live, of) == [outcome |-> "returned", live |-> live, of |-> of]

NotCalled == [outcome |-> "pending", live |-> FALSE, of |-> "none"]

\* getMainElement of convert.ts: a fresh container for the Readability result,
\* else a deep clone of the fallback element; liveEl.cloneNode throws on null.
getMainElement(doc, body, article, config) ==
    LET liveEl == LiveElement(doc, body, config)
    IN  IF article THEN Returned(FALSE, "container")
        ELSE IF liveEl \in {"throws", "null"} THEN Threw
        ELSE Returned(FALSE, liveEl)

\* getMainElement of content_script.ts: the fallback element itself is
\* returned (null when nothing matches and there is no body).
getMainElementContentScript(doc, body, article, config) ==
    LET liveEl == LiveElement(doc, body, config)
    IN  IF article THEN Returned(FALSE, "container")
        ELSE IF liveEl = "throws" THEN Threw
        ELSE Returned(liveEl # "null", liveEl)

\* The steps that mutate the root in place, in the order the callers run them
\* (convertToMarkdown; convertPageToMarkdown runs the same ones without describeSVGs).
Normalizers ==
    <<"describeEmbeddedMedia", "describeSVGs", "cleanContent", "normalizeLinks",
      "unwrapHeadingLinks", "prepareCodeBlockContainers", "generateTOC",
      "convertFootnotes">>

IdleLoc ==
    /\ locDoc = <<>>
    /\ locBody = TRUE
    /\ locArticle = FALSE
    /\ locConfig = "none"
    /\ locCaller = "convert"
    /\ locResult = NotCalled
    /\ locStep = 0
    /\ docTouched = {}

\* The page is an HTML document, which always has a body.
StartLoc ==
    /\ locDoc \in Docs
    /\ locBody = TRUE
    /\ locArticle \in BOOLEAN
    /\ locConfig \in ConfigSelectors \cup {"none"}
    /\ locCaller \in {"convert", "content_script"}
    /\ locResult = NotCalled
    /\ locStep = 0
    /\ docTouched = {}

\* getMainElement(doc, hostname, configs) of convert.ts
LocateMain ==
    /\ locCaller = "convert"
    /\ locResult = NotCalled
    /\ locResult' = getMainElement(locDoc, locBody, locArticle, locConfig)
    /\ UNCHANGED <<locDoc, locBody, locArticle, locConfig, locCaller, locStep, docTouched>>

\* getMainElement(document) of content_script.ts
LocateMainContentScript ==
    /\ locCaller = "content_script"
    /\ locResult = NotCalled
    /\ locResult' = getMainElementContentScript(locDoc, locBody, locArticle, locConfig)
    /\ UNCHANGED <<locDoc, locBody, locArticle, locConfig, locCaller, locStep, docTouched>>

\* The next normalizer mutates the returned root in place; content_script.ts
\* has no describeSVGs step.  A root that is a live element of the source
\* document is a node of that document.
NormalizeRoot ==
    /\ locResult.outcome = "returned"
    /\ locResult.of # "null"
    /\ locStep < Len(Normalizers)
    /\ locStep' = locStep + 1
    /\ docTouched' =
           IF locResult.live
                 /\ ~(locCaller = "content_script" /\ Normalizers[locStep + 1] = "describeSVGs")
           THEN docTouched \cup {locResult.of} ELSE docTouched
    /\ UNCHANGED <<locDoc, locBody, locArticle, locConfig, locCaller, locResult>>

\* C7: getMainElement never throws and always returns an element, for every
\* document, hostname and configuration mapping.
C7_GetMainElementNeverThrows ==
    (locCaller = "convert" /\ locResult # NotCalled) =>
        /\ locResult.outcome = "returned"
        /\ locResult.of # "null"

\* The element the fallback chain selects, for a chain that does not throw.
FallbackElement == LiveElement(locDoc, locBody, locConfig)

\* C8: when readability extraction yields no content, getMainElement returns a
\* deep clone of the first match of the chain configured selector -> 'article,
\* main' -> body, and no normalizer step applied to the returned root changes
\* a node of the source document.
C8_FallbackIsCloneSourceUntouched ==
    (locResult.outcome = "returned" /\ ~locArticle) =>
        /\ locResult.of = FallbackElement
        /\ ~locResult.live
        /\ docTouched = {}

-----------------------------------------------------------------------------
(* convertToMarkdown                                                        *)

\* At most this many steps throw on one input.
MaxFaults == 2

\* A variant of ConvertSequence that extracts footnotes before cleaning.
ConvertSequenceFootnotesFirst ==
    <<"describeEmbeddedMedia", "describeSVGs", "convertFootnotes", "cleanContent",
      "normalizeLinks", "unwrapHeadingLinks", "prepareCodeBlockContainers",
      "generateTOC", "createTurndownService", "sanitize", "render",
      "postProcessMarkdown", "renderFootnotes">>

\* The calls of convertToMarkdown in source order; "sanitize" is
\* DOMPurify.sanitize(el.innerHTML), "render" is turndownService.turndown.
ConvertSequence ==
    <<"describeEmbeddedMedia", "describeSVGs", "cleanContent", "normalizeLinks",
      "unwrapHeadingLinks", "prepareCodeBlockContainers", "generateTOC",
      "convertFootnotes", "createTurndownService", "sanitize", "render",
      "postProcessMarkdown", "renderFootnotes">>

ConvertSteps == { ConvertSequence[i] : i \in 1..Len(ConvertSequence) }

FaultSets(steps) == { F \in SUBSET steps : Cardinality(F) <= MaxFaults }

NoMarkdown == [body |-> FALSE, appendix |-> FALSE]

IdleCV ==
    /\ cvFaults = {}
    /\ cvHasFootnotes = FALSE
    /\ cvPc = 1
    /\ cvTrace = <<>>
    /\ cvOutcome = "running"
    /\ cvResult = NoMarkdown

StartCV ==
    /\ cvFaults \in FaultSets(ConvertSteps)
    /\ cvHasFootnotes \in BOOLEAN
    /\ cvPc = 1
    /\ cvTrace = <<>>
    /\ cvOutcome = "running"
    /\ cvResult = NoMarkdown

\* The next call of convertToMarkdown runs to completion.
ConvertStepRuns ==
    /\ cvOutcome = "running"
    /\ cvPc <= Len(ConvertSequence)
    /\ ConvertSequence[cvPc] \notin cvFaults
    /\ cvTrace' = Append(cvTrace, ConvertSequence[cvPc])
    /\ cvPc' = cvPc + 1
    /\ UNCHANGED <<cvFaults, cvHasFootnotes, cvOutcome, cvResult>>

\* The next call throws; convertToMarkdown has no try block, so it ends there.
ConvertStepThrows ==
    /\ cvOutcome = "running"
    /\ cvPc <= Len(ConvertSequence)
    /\ ConvertSequence[cvPc] \in cvFaults
    /\ cvOutcome' = "threw"
    /\ UNCHANGED <<cvFaults, cvHasFootnotes, cvPc, cvTrace, cvResult>>

\* markdown = footnoteMarkdown ? `${processedMarkdown}\n\n${footnoteMarkdown}`
\*                             : processedMarkdown;  return { markdown, toc }
ConvertReturns ==
    /\ cvOutcome = "running"
    /\ cvPc > Len(ConvertSequence)
    /\ cvResult' = [body |-> TRUE, appendix |-> cvHasFootnotes]
    /\ cvOutcome' = "returned"
    /\ UNCHANGED <<cvFaults, cvHasFootnotes, cvPc, cvTrace>>

\* The steps C9 lists (createTurndownService only builds the renderer).
C9_Steps ==
    <<"describeEmbeddedMedia", "describeSVGs", "cleanContent", "normalizeLinks",
      "unwrapHeadingLinks", "prepareCodeBlockContainers", "generateTOC",
      "convertFootnotes", "sanitize", "render", "postProcessMarkdown",
      "renderFootnotes">>

C9_Listed(step) == \E i \in 1..Len(C9_Steps) : C9_Steps[i] = step

C9_Before(first, second) ==
    \A k \in 1..Len(cvTrace) :
        cvTrace[k] = second => \E j \in 1..(k - 1) : cvTrace[j] = first

\* C9: convertToMarkdown runs each step exactly once in the fixed order
\* describeEmbeddedMedia, describeSVGs, cleanContent, normalizeLinks,
\* unwrapHeadingLinks, prepareCodeBlockContainers, generateTOC, convertFootnotes,
\* sanitize, render, postProcessMarkdown, renderFootnotes; footnote extraction
\* never runs before cleaning and TOC generation, and rendering never runs
\* before footnote extraction.
C9_FixedStepOrder ==
    /\ cvOutcome = "returned" => SelectSeq(cvTrace, C9_Listed) = C9_Steps
    /\ \A i, j \in 1..Len(cvTrace) : i # j => cvTrace[i] # cvTrace[j]
    /\ C9_Before("cleanContent", "convertFootnotes")
    /\ C9_Before("generateTOC", "convertFootnotes")
    /\ C9_Before("convertFootnotes", "render")

\* convertToMarkdown has returned a body with a footnote appendix.
C9_Witness ==
    /\ cvOutcome = "returned"
    /\ cvResult = [body |-> TRUE, appendix |-> TRUE]
    /\ Len(cvTrace) = Len(ConvertSequence)

-----------------------------------------------------------------------------
(* window.convertPageToMarkdown (content_script.ts)                         *)

\* The calls of convertPageToMarkdown in source order; "render" stands for the
\* Turndown set-up, DOMPurify.sanitize and turndownService.turndown.
PageSequence ==
    <<"loadCustomConfigs", "getMainElement", "describeEmbeddedMedia", "cleanContent",
      "normalizeLinks", "unwrapHeadingLinks", "prepareCodeBlockContainers",
      "generateTOC", "fetchCanonicalMarkdown", "convertFootnotes", "render",
      "postProcessMarkdown", "renderFootnotes", "copyToClipboard">>

\* The calls wrapped in their own try/catch (console.warn and carry on).
LocallyCaught == {"describeEmbeddedMedia", "fetchCanonicalMarkdown", "convertFootnotes"}

\* The steps of the conversion chain that can throw: loadCustomConfigs catches
\* its own storage errors, and copyToClipboard ends as pgClip says.
ThrowableSteps ==
    { PageSequence[i] : i \in 1..Len(PageSequence) } \ {"loadCustomConfigs", "copyToClipboard"}

\* What the canonical lookup gives: no alternate link ("none"), a document whose
\* stripped body is empty ("empty"), or one with a body ("body").
CanonicalOutcomes == {"none", "empty", "body"}

\* How copyToClipboard ends: the async write works ("async"); it fails and
\* execCommand returns true ("fallback"), returns false ("refused") or throws.
ClipOutcomes == {"async", "fallback", "refused", "throws"}

IndexOfStep(name) == CHOOSE i \in 1..Len(PageSequence) : PageSequence[i] = name

PageDonePc == Len(PageSequence) + 1

NoOutput == [toc |-> "unset", body |-> "unset"]

IdlePG ==
    /\ pgFaults = {}
    /\ pgCanonical = "none"
    /\ pgClip = "async"
    /\ pgHeadings = FALSE
    /\ pgPc = 1
    /\ pgTrace = <<>>
    /\ pgThrown = {}
    /\ pgWarned = {}
    /\ pgClipboard = "untouched"
    /\ pgToast = "none"
    /\ pgLogged = FALSE
    /\ pgToc = "unset"
    /\ pgBody = "unset"
    /\ pgOutput = NoOutput
    /\ pgCopy = "idle"
    /\ pgTextarea = "none"

StartPG ==
    /\ pgFaults \in FaultSets(ThrowableSteps)
    /\ pgCanonical \in CanonicalOutcomes
    /\ pgClip \in ClipOutcomes
    /\ pgHeadings \in BOOLEAN
    /\ pgPc = 1
    /\ pgTrace = <<>>
    /\ pgThrown = {}
    /\ pgWarned = {}
    /\ pgClipboard = "untouched"
    /\ pgToast = "none"
    /\ pgLogged = FALSE
    /\ pgToc = "unset"
    /\ pgBody = "unset"
    /\ pgOutput = NoOutput
    /\ pgCopy = "idle"
    /\ pgTextarea = "none"

\* TRUE when fetchCanonicalMarkdown and stripFrontMatter gave a non-empty body.
CanonicalUsed ==
    pgCanonical = "body" /\ "fetchCanonicalMarkdown" \notin pgFaults

\* The canonical body replaces the DOM-derived one: the else branch with
\* convertFootnotes .. renderFootnotes is skipped.
PageNextPc(pc) ==
    IF PageSequence[pc] = "fetchCanonicalMarkdown" /\ CanonicalUsed
    THEN IndexOfStep("copyToClipboard")
    ELSE pc + 1

\* const toc = generateTOC(mainEl): one line per heading of the main element.
PageTocAfter(step) ==
    IF step = "generateTOC" THEN (IF pgHeadings THEN "links" ELSE "empty") ELSE pgToc

\* bodyContent = canonicalContent in the then-branch; in the else-branch it is
\* assigned from the rendered Markdown once renderFootnotes has run.
PageBodyAfter(step) ==
    CASE step = "fetchCanonicalMarkdown" /\ CanonicalUsed -> "canonical"
      [] step = "renderFootnotes" -> "dom"
      [] OTHER -> pgBody

\* The next call runs to completion.
PageStepRuns ==
    /\ pgPc < IndexOfStep("copyToClipboard")
    /\ PageSequence[pgPc] \notin pgFaults
    /\ pgTrace' = Append(pgTrace, PageSequence[pgPc])
    /\ pgToc' = PageTocAfter(PageSequence[pgPc])
    /\ pgBody' = PageBodyAfter(PageSequence[pgPc])
    /\ pgPc' = PageNextPc(pgPc)
    /\ UNCHANGED <<pgFaults, pgCanonical, pgClip, pgHeadings, pgThrown, pgWarned,
                   pgClipboard, pgToast, pgLogged, pgOutput, pgCopy, pgTextarea>>

\* The next call throws inside its own try/catch: a warning is logged and the
\* run goes on (without footnotes, or without the canonical body).
PageStepWarns ==
    /\ pgPc < IndexOfStep("copyToClipboard")
    /\ PageSequence[pgPc] \in pgFaults \cap LocallyCaught
    /\ pgTrace' = Append(pgTrace, PageSequence[pgPc])
    /\ pgThrown' = pgThrown \cup {PageSequence[pgPc]}
    /\ pgWarned' = pgWarned \cup {PageSequence[pgPc]}
    /\ pgPc' = pgPc + 1
    /\ UNCHANGED <<pgFaults, pgCanonical, pgClip, pgHeadings, pgClipboard, pgToast,
                   pgLogged, pgToc, pgBody, pgOutput, pgCopy, pgTextarea>>

\* The next call throws into the outer catch: console.error and the error toast.
PageStepFails ==
    /\ pgPc < IndexOfStep("copyToClipboard")
    /\ PageSequence[pgPc] \in pgFaults \ LocallyCaught
    /\ pgTrace' = Append(pgTrace, PageSequence[pgPc])
    /\ pgThrown' = pgThrown \cup {PageSequence[pgPc]}
    /\ pgToast' = "convert-failed"
    /\ pgPc' = PageDonePc
    /\ UNCHANGED <<pgFaults, pgCanonical, pgClip, pgHeadings, pgWarned, pgClipboard,
                   pgLogged, pgToc, pgBody, pgOutput, pgCopy, pgTextarea>>

\* finalOutput is joined from front matter, toc and bodyContent, and
\* copyToClipboard awaits navigator.clipboard.writeText; a rejection enters the
\* catch block, which appends a textarea holding the text to document.body.
PageWriteText ==
    /\ pgPc = IndexOfStep("copyToClipboard")
    /\ pgCopy = "idle"
    /\ pgTrace' = Append(pgTrace, "copyToClipboard")
    /\ pgOutput' = [toc |-> pgToc, body |-> pgBody]
    /\ IF pgClip = "async"
       THEN pgClipboard' = "markdown" /\ pgCopy' = "true" /\ pgTextarea' = pgTextarea
       ELSE pgClipboard' = pgClipboard /\ pgCopy' = "fallback" /\ pgTextarea' = "attached"
    /\ UNCHANGED <<pgFaults, pgCanonical, pgClip, pgHeadings, pgPc, pgThrown, pgWarned,
                   pgToast, pgLogged, pgToc, pgBody>>

\* try { return document.execCommand('copy') } finally { removeChild(textarea) }
PageExecCommand ==
    /\ pgPc = IndexOfStep("copyToClipboard")
    /\ pgCopy = "fallback"
    /\ pgClipboard' = IF pgClip = "fallback" THEN "markdown" ELSE pgClipboard
    /\ pgCopy' = CASE pgClip = "fallback" -> "true"
                   [] pgClip = "refused" -> "false"
                   [] pgClip = "throws" -> "threw"
    /\ pgTextarea' = "removed"
    /\ UNCHANGED <<pgFaults, pgCanonical, pgClip, pgHeadings, pgPc, pgTrace, pgThrown,
                   pgWarned, pgToast, pgLogged, pgToc, pgBody, pgOutput>>

\* if (success) showSuccessToast else { showErrorToast; console.error(output) };
\* an exception out of copyToClipboard lands in the outer catch instead.
PageReports ==
    /\ pgPc = IndexOfStep("copyToClipboard")
    /\ pgCopy \in {"true", "false", "threw"}
    /\ pgToast' = CASE pgCopy = "true" -> "success"
                    [] pgCopy = "false" -> "copy-failed"
                    [] pgCopy = "threw" -> "convert-failed"
    /\ pgLogged' = (pgCopy = "false")
    /\ pgThrown' = IF pgCopy = "threw" THEN pgThrown \cup {"copyToClipboard"} ELSE pgThrown
    /\ pgPc' = PageDonePc
    /\ UNCHANGED <<pgFaults, pgCanonical, pgClip, pgHeadings, pgTrace, pgWarned,
                   pgClipboard, pgToc, pgBody, pgOutput, pgCopy, pgTextarea>>

\* C10: if any step of the conversion chain in convertPageToMarkdown throws,
\* nothing is written to the clipboard for that run and an error notification
\* is shown; output is delivered only when every step completed.
C10_NoOutputAfterThrow ==
    (pgPc = PageDonePc /\ pgThrown # {}) =>
        /\ pgClipboard = "untouched"
        /\ pgToast \in {"copy-failed", "convert-failed"}

\* C11: when a canonical Markdown alternative is fetched and stripped to a
\* non-empty body, the final output uses that body in place of the DOM-derived
\* one and its table-of-contents section is empty.
C11_CanonicalBodyEmptyTOC ==
    (pgOutput # NoOutput /\ CanonicalUsed) =>
        /\ pgOutput.body = "canonical"
        /\ pgOutput.toc = "empty"

\* C12: if the asynchronous clipboard write fails the execCommand fallback is
\* attempted; if the fallback fails too, by returning false or by throwing, the
\* user sees a failure notification and the Markdown is logged to the console;
\* in every outcome the temporary textarea is removed from the document.
C12_ClipboardFallbackReported ==
    pgPc = PageDonePc =>
        /\ (pgOutput # NoOutput /\ pgClip # "async") => pgTextarea = "removed"
        /\ (pgOutput # NoOutput /\ pgClip \in {"refused", "throws"}) =>
               /\ pgToast \in {"copy-failed", "convert-failed"}
               /\ pgLogged
        /\ pgTextarea # "attached"

-----------------------------------------------------------------------------
(* chrome.runtime.onMessage listener and executeConversion (background.ts)  *)

ListenerVersions == {"part_002", "background.ts"}
MessageTypes == {"convert-current-tab", "other", "undefined"}
TabLookups == {"none", "noId", "ok"}
ChromeCalls == {"query", "focus", "activate", "inject"}

\* The message of the Error a rejected chrome call carries.
RejectionMessage(call) ==
    CASE call = "query" -> "query failed"
      [] call = "focus" -> "focus failed"
      [] call = "activate" -> "activation failed"
      [] call = "inject" -> "injection failed"

OkResponse == [ok |-> TRUE, message |-> "absent"]
FailResponse(msg) == [ok |-> FALSE, message |-> msg]

IdleBG ==
    /\ bgVersion = "part_002"
    /\ bgMessage = "undefined"
    /\ bgTab = "none"
    /\ bgFailAt = "none"
    /\ bgPc = "idle"
    /\ bgReturn = "pending"
    /\ bgError = "none"
    /\ bgConsole = <<>>
    /\ bgResponses = <<>>

StartBG ==
    /\ bgVersion \in ListenerVersions
    /\ bgMessage \in MessageTypes
    /\ bgTab \in TabLookups
    /\ bgFailAt \in ChromeCalls \cup {"none"}
    /\ bgPc = "idle"
    /\ bgReturn = "pending"
    /\ bgError = "none"
    /\ bgConsole = <<>>
    /\ bgResponses = <<>>

\* The synchronous part of the listener: start the async block and return true
\* for 'convert-current-tab', return undefined for anything else.
ListenerReceives ==
    /\ bgPc = "idle"
    /\ IF bgMessage = "convert-current-tab"
       THEN bgReturn' = "true" /\ bgPc' = "query"
       ELSE bgReturn' = "undefined" /\ bgPc' = "done"
    /\ UNCHANGED <<bgVersion, bgMessage, bgTab, bgFailAt, bgError, bgConsole, bgResponses>>

\* const [activeTab] = await chrome.tabs.query(...); if (!activeTab) throw
QueryActiveTab ==
    /\ bgPc = "query"
    /\ IF bgFailAt = "query"
       THEN bgError' = RejectionMessage("query") /\ bgPc' = "catch"
       ELSE IF bgTab = "none"
            THEN bgError' = "No active tab" /\ bgPc' = "catch"
            ELSE bgError' = bgError /\ bgPc' = "enter"
    /\ UNCHANGED <<bgVersion, bgMessage, bgTab, bgFailAt, bgReturn, bgConsole, bgResponses>>

\* Where an error raised inside executeConversion goes: convert.ts's copy lets
\* it reach the listener's catch; background.ts's copy logs it and returns.
AfterExecutionError(msg) ==
    IF bgVersion = "part_002"
    THEN /\ bgError' = msg
         /\ bgPc' = "catch"
         /\ bgConsole' = bgConsole
    ELSE /\ bgError' = bgError
         /\ bgPc' = "respond"
         /\ bgConsole' = Append(bgConsole, "Failed to execute conversion:")

\* The guard on tab.id / tab.windowId at the top of executeConversion.
EnterExecuteConversion ==
    /\ bgPc = "enter"
    /\ IF bgTab = "noId"
       THEN IF bgVersion = "part_002"
            THEN bgError' = "No active tab" /\ bgPc' = "catch"
            ELSE bgError' = bgError /\ bgPc' = "respond"
       ELSE bgError' = bgError /\ bgPc' = "focus"
    /\ UNCHANGED <<bgVersion, bgMessage, bgTab, bgFailAt, bgReturn, bgConsole, bgResponses>>

\* await chrome.windows.update(tab.windowId, { focused: true })
FocusWindow ==
    /\ bgPc = "focus"
    /\ IF bgFailAt = "focus"
       THEN AfterExecutionError(RejectionMessage("focus"))
       ELSE bgPc' = "activate" /\ UNCHANGED <<bgError, bgConsole>>
    /\ UNCHANGED <<bgVersion, bgMessage, bgTab, bgFailAt, bgReturn, bgResponses>>

\* await chrome.tabs.update(tab.id, { active: true })
ActivateTab ==
    /\ bgPc = "activate"
    /\ IF bgFailAt = "activate"
       THEN AfterExecutionError(RejectionMessage("activate"))
       ELSE bgPc' = "inject" /\ UNCHANGED <<bgError, bgConsole>>
    /\ UNCHANGED <<bgVersion, bgMessage, bgTab, bgFailAt, bgReturn, bgResponses>>

\* await chrome.scripting.executeScript({ target, func })
InjectScript ==
    /\ bgPc = "inject"
    /\ IF bgFailAt = "inject"
       THEN AfterExecutionError(RejectionMessage("inject"))
       ELSE bgPc' = "respond" /\ UNCHANGED <<bgError, bgConsole>>
    /\ UNCHANGED <<bgVersion, bgMessage, bgTab, bgFailAt, bgReturn, bgResponses>>

\* sendResponse({ ok: true }) after executeConversion has returned.
RespondOk ==
    /\ bgPc = "respond"
    /\ bgResponses' = Append(bgResponses, OkResponse)
    /\ bgPc' = "done"
    /\ UNCHANGED <<bgVersion, bgMessage, bgTab, bgFailAt, bgReturn, bgError, bgConsole>>

\* catch (error): console.error and sendResponse({ ok: false, message }).
RespondFailure ==
    /\ bgPc = "catch"
    /\ bgConsole' = Append(bgConsole, "Failed to convert current tab:")
    /\ bgResponses' = Append(bgResponses, FailResponse(bgError))
    /\ bgPc' = "done"
    /\ UNCHANGED <<bgVersion, bgMessage, bgTab, bgFailAt, bgReturn, bgError>>

\* The message of the first error of this run, "none" when nothing fails.
ExpectedError ==
    CASE bgFailAt = "query" -> RejectionMessage("query")
      [] bgFailAt # "query" /\ bgTab \in {"none", "noId"} -> "No active tab"
      [] bgFailAt \notin {"query", "none"} /\ bgTab = "ok" -> RejectionMessage(bgFailAt)
      [] OTHER -> "none"

\* C13: for every 'convert-current-tab' message the listener returns true and
\* calls sendResponse exactly once: with {ok: true} only if the active tab was
\* found and focus, activation and injection all succeeded, and with
\* {ok: false, message: <the error's message>} if the lookup is empty or any
\* step fails; for any other message it returns undefined and never responds.
C13_ListenerRespondsOnce ==
    /\ Len(bgResponses) <= 1
    /\ bgPc = "done" =>
         IF bgMessage = "convert-current-tab"
         THEN /\ bgReturn = "true"
              /\ Len(bgResponses) = 1
              /\ bgResponses[1] = IF ExpectedError = "none" THEN OkResponse
                                  ELSE FailResponse(ExpectedError)
         ELSE /\ bgReturn = "undefined"
              /\ bgResponses = <<>>

-----------------------------------------------------------------------------
(* normalizeLinks                                                           *)

\* At most this many parameters in an href's query.
MaxParams == 2

\* new Set(['fbclid', 'gclid', 'mc_cid', 'mc_eid', 'ref'])
trackingParams ==
    { <<"f", "b", "c", "l", "i", "d">>, <<"g", "c", "l", "i", "d">>,
      <<"m", "c", "_", "c", "i", "d">>, <<"m", "c", "_", "e", "i", "d">>,
      <<"r", "e", "f">> }

\* A variant of IsTrackingKey that compares the key without lower-casing it.
IsTrackingKeyCaseSensitive(key) ==
    StartsWith(key, <<"u", "t", "m", "_">>) \/ key \in trackingParams

\* lowerKey.startsWith('utm_') || trackingParams.has(lowerKey)
IsTrackingKey(key) ==
    LET lowerKey == ToLowerCase(key)
    IN  StartsWith(lowerKey, <<"u", "t", "m", "_">>) \/ lowerKey \in trackingParams

\* Parameter names and raw values the pages use; "pct20" is the escape %20.
ParamNames ==
    { <<"r", "e", "f">>, <<"r", "e", "f", "s">>, <<"g", "C", "l", "i", "d">>,
      <<"u", "t", "m", "_", "a">>, <<"k">> }
ParamValues == { <<"1">>, <<"a", "+", "b">>, <<"a", "pct20", "b">> }

\* One raw item of a query string: name=value, or a bare name.
RawParams ==
    { n \o <<"=">> \o v : n \in ParamNames, v \in ParamValues } \cup ParamNames

RawQueries == UNION { [1..n -> RawParams] : n \in 0..MaxParams }

\* Hrefs are sequences of tokens: an optional scheme, an optional //host, a path.
UrlPrefixes ==
    { <<"https:", "//example.com", "/page">>, <<"/page">>, <<"http:", "//[">> }
OtherPrefixes ==
    { <<>>, <<"javascript:", "void(0)">>, <<"JavaScript:", "void(0)">>, <<"#", "section">> }

Hrefs ==
    { [prefix |-> p, query |-> q] : p \in UrlPrefixes, q \in RawQueries }
        \cup { [prefix |-> p, query |-> <<>>] : p \in OtherPrefixes }

\* The attribute string of an href: prefix, then '?' and the items joined by '&'.
HrefString(h) ==
    h.prefix \o (IF h.query = <<>> THEN <<>> ELSE <<"?">> \o JoinWith(h.query, <<"&">>))

Schemes == {"https:", "http:", "javascript:", "JavaScript:"}

\* new URL(rawHref, location.href) throws for a host that cannot be parsed.
UrlParses(prefix) == \A i \in 1..Len(prefix) : prefix[i] # "//["

\* The scheme and path of url.toString(): schemes are lower-cased and relative
\* references are resolved against the page location.
ResolvePrefix(prefix) ==
    IF prefix # <<>> /\ prefix[1] \in Schemes
    THEN <<IF prefix[1] = "JavaScript:" THEN "javascript:" ELSE prefix[1]>> \o Tail(prefix)
    ELSE <<"https:", "//site.test">> \o prefix

\* application/x-www-form-urlencoded decoding: '+' and %20 both mean a space.
FormDecode(s) == MapChars(s, {"+", "pct20"}, " ")

\* application/x-www-form-urlencoded encoding: a space is written as '+'.
FormEncode(s) == MapChars(s, {" "}, "+")

\* url.searchParams: each item split at its first '=', both sides decoded.
ParseParam(raw) ==
    IF \E i \in 1..Len(raw) : raw[i] = "="
    THEN LET i == CHOOSE k \in 1..Len(raw) :
                      raw[k] = "=" /\ \A j \in 1..(k - 1) : raw[j] # "="
         IN  [key |-> FormDecode(SubSeq(raw, 1, i - 1)),
              value |-> FormDecode(SubSeq(raw, i + 1, Len(raw)))]
    ELSE [key |-> FormDecode(raw), value |-> <<>>]

ParseQuery(query) == [i \in 1..Len(query) |-> ParseParam(query[i])]

SerializeParam(p) == FormEncode(p.key) \o <<"=">> \o FormEncode(p.value)

\* The keys pushed to paramsToDelete by url.searchParams.forEach.
CollectParamsToDelete(params) ==
    LET Tracked(p) == IsTrackingKey(p.key)
        hits == SelectSeq(params, Tracked)
    IN  [i \in 1..Len(hits) |-> hits[i].key]

\* url.searchParams.delete(key) for every collected key: drops every pair with
\* exactly that name.  The query is re-serialized only when a pair was dropped.
QueryAfterDelete(query, keys) ==
    LET params == ParseQuery(query)
        Kept(p) == \A i \in 1..Len(keys) : keys[i] # p.key
        kept   == SelectSeq(params, Kept)
    IN  IF keys = <<>> THEN query
        ELSE [i \in 1..Len(kept) |-> SerializeParam(kept[i])]

\* A variant of SkipsHref without the test for hash links.
SkipsHrefExceptHash(rawHref) ==
    rawHref = <<>> \/ StartsWith(rawHref, <<"javascript:">>)

\* !rawHref || rawHref.startsWith('javascript:') || rawHref.startsWith('#')
SkipsHref(rawHref) ==
    rawHref = <<>> \/ StartsWith(rawHref, <<"javascript:">>) \/ StartsWith(rawHref, <<"#">>)

IdleNL ==
    /\ nlHref = [prefix |-> <<>>, query |-> <<>>]
    /\ nlResult = <<>>
    /\ nlPath = "none"
    /\ nlDeleted = <<>>

StartNL ==
    /\ nlHref \in Hrefs
    /\ nlResult = HrefString(nlHref)
    /\ nlPath = "none"
    /\ nlDeleted = <<>>

\* The callback returns early: the href is not looked at further.
NormalizeSkips ==
    /\ nlPath = "none"
    /\ SkipsHref(HrefString(nlHref))
    /\ nlPath' = "skipped"
    /\ UNCHANGED <<nlHref, nlResult, nlDeleted>>

\* new URL throws inside the try block; the empty catch swallows it.
NormalizeParseFails ==
    /\ nlPath = "none"
    /\ ~SkipsHref(HrefString(nlHref))
    /\ ~UrlParses(nlHref.prefix)
    /\ nlPath' = "failed"
    /\ UNCHANGED <<nlHref, nlResult, nlDeleted>>

\* The URL parses: collect, delete, and write url.toString() back.
NormalizeRewrites ==
    /\ nlPath = "none"
    /\ ~SkipsHref(HrefString(nlHref))
    /\ UrlParses(nlHref.prefix)
    /\ LET keys == CollectParamsToDelete(ParseQuery(nlHref.query))
       IN  /\ nlDeleted' = keys
           /\ nlResult' = HrefString([prefix |-> ResolvePrefix(nlHref.prefix),
                                      query |-> QueryAfterDelete(nlHref.query, keys)])
    /\ nlPath' = "rewritten"
    /\ UNCHANGED nlHref

\* The query items of an href string: what follows the first '?', split on '&'.
QueryItemsOf(href) ==
    IF \E i \in 1..Len(href) : href[i] = "?"
    THEN LET i == CHOOSE k \in 1..Len(href) :
                      href[k] = "?" /\ \A j \in 1..(k - 1) : href[j] # "?"
         IN  SplitOn(SubSeq(href, i + 1, Len(href)), "&")
    ELSE <<>>

C14_Tracked(p) ==
    LET lower == ToLowerCase(p.key)
    IN  lower \in trackingParams \/ StartsWith(lower, <<"u", "t", "m", "_">>)

C14_NotTracked(p) == ~C14_Tracked(p)

C14_Applies ==
    /\ nlPath # "none"
    /\ HrefString(nlHref) # <<>>
    /\ ~StartsWith(HrefString(nlHref), <<"javascript:">>)
    /\ ~StartsWith(HrefString(nlHref), <<"#">>)
    /\ UrlParses(nlHref.prefix)

C15_Applies ==
    /\ nlPath # "none"
    /\ \/ HrefString(nlHref) = <<>>
       \/ StartsWith(HrefString(nlHref), <<"javascript:">>)
       \/ StartsWith(HrefString(nlHref), <<"#">>)
       \/ ~UrlParses(nlHref.prefix)

\* C15: normalizeLinks leaves the href attribute exactly unchanged for every
\* anchor whose href is empty, starts with 'javascript:', starts with '#', or
\* fails to parse as a URL against the page location.
C15_SkippedHrefUnchanged ==
    C15_Applies => nlResult = HrefString(nlHref)

\* A hash link, and an unparseable href carrying a tracking parameter, have
\* been through the callback.
C15_Witness ==
    /\ nlPath \in {"skipped", "failed"}
    /\ \/ nlHref.prefix = <<"#", "section">>
       \/ nlHref.prefix = <<"http:", "//[">> /\ nlHref.query = << <<"r", "e", "f", "=", "1">> >>

\* An href without a scheme is relative to the page.
IsRelativeHref(href) == href = <<>> \/ href[1] \notin Schemes

\* C25: normalizeLinks preserves relativity: an anchor it rewrites whose href
\* was relative still has a relative href, and an href none of whose query
\* parameters is a tracking parameter is left as written.
C25_RelativityPreserved ==
    nlPath = "rewritten" =>
        /\ IsRelativeHref(HrefString(nlHref)) => IsRelativeHref(nlResult)
        /\ CollectParamsToDelete(ParseQuery(nlHref.query)) = <<>>
               => nlResult = HrefString(nlHref)

-----------------------------------------------------------------------------
(* unwrapHeadingLinks                                                       *)

\* At most this many child nodes in a heading.
MaxChildren == 3

TextNode(t) == [type |-> "text", tag |-> "#text", text |-> t, inner |-> <<>>]
ElementNode(tag, inner) == [type |-> "element", tag |-> tag, text |-> <<>>, inner |-> inner]

\* Child nodes of a heading: text, whitespace, a link around text, a link
\* around inline formatting, and a span.
HeadingChildren ==
    { TextNode(<<"x">>), TextNode(<<" ">>),
      ElementNode("A", <<TextNode(<<"y">>)>>),
      ElementNode("A", <<ElementNode("EM", <<TextNode(<<"y">>)>>)>>),
      ElementNode("SPAN", <<TextNode(<<"z">>)>>) }

HeadingContents == UNION { [1..n -> HeadingChildren] : n \in 0..MaxChildren }

\* element.childElementCount
ChildElementCount(children) ==
    Cardinality({ i \in 1..Len(children) : children[i].type = "element" })

\* element.firstElementChild, for a node list that holds an element.
FirstElementChild(children) ==
    children[CHOOSE i \in 1..Len(children) :
                 children[i].type = "element"
                     /\ \A j \in 1..(i - 1) : children[j].type # "element"]

\* node.textContent of a list of child nodes.
RECURSIVE TextContent(_)
TextContent(children) ==
    IF children = <<>> THEN <<>>
    ELSE (IF children[1].type = "text" THEN children[1].text
          ELSE TextContent(children[1].inner)) \o TextContent(Tail(children))

IdleUH ==
    /\ uhBefore = <<>>
    /\ uhChildren = <<>>
    /\ uhPath = "none"

StartUH ==
    /\ uhBefore \in HeadingContents
    /\ uhChildren = uhBefore
    /\ uhPath = "none"

\* if (element.childElementCount !== 1) return
UnwrapSkipsCount ==
    /\ uhPath = "none"
    /\ ChildElementCount(uhChildren) # 1
    /\ uhPath' = "count"
    /\ UNCHANGED <<uhBefore, uhChildren>>

\* if (!onlyChild || onlyChild.tagName !== 'A') return
UnwrapSkipsTag ==
    /\ uhPath = "none"
    /\ ChildElementCount(uhChildren) = 1
    /\ FirstElementChild(uhChildren).tag # "A"
    /\ uhPath' = "tag"
    /\ UNCHANGED <<uhBefore, uhChildren>>

\* element.innerHTML = anchor.innerHTML
UnwrapReplaces ==
    /\ uhPath = "none"
    /\ ChildElementCount(uhChildren) = 1
    /\ FirstElementChild(uhChildren).tag = "A"
    /\ uhChildren' = FirstElementChild(uhChildren).inner
    /\ uhPath' = "unwrapped"
    /\ UNCHANGED uhBefore

\* A heading whose children are exactly one anchor.
C19_OnlyChildIsAnchor ==
    Len(uhBefore) = 1 /\ uhBefore[1].type = "element" /\ uhBefore[1].tag = "A"

\* Besides one anchor the heading holds another element or text that is not
\* just whitespace.
C19_HasOtherContent ==
    \/ ChildElementCount(uhBefore) > 1
    \/ \E i \in 1..Len(uhBefore) : uhBefore[i].type = "element" /\ uhBefore[i].tag # "A"
    \/ \E i \in 1..Len(uhBefore) : uhBefore[i].type = "text" /\ Trim(uhBefore[i].text) # <<>>

\* C19: unwrapHeadingLinks changes a heading only when a single anchor is its
\* only child; a heading with any other child content besides that anchor
\* (another element or non-empty text outside the anchor) is left unchanged, so
\* no heading's text content is changed by the step.
C19_OnlySoleAnchorUnwrapped ==
    uhPath # "none" =>
        /\ C19_HasOtherContent => uhChildren = uhBefore
        /\ Trim(TextContent(uhChildren)) = Trim(TextContent(uhBefore))

-----------------------------------------------------------------------------
(* describeEmbeddedMedia                                                    *)

\* At most this many iframe/video/audio elements under the root.
MaxMedia == 2

\* URLs are sequences of tokens: a scheme, host labels, a path.
YouTubeUrl == <<"https://", "www.", "youtube.com", "/embed/abc">>
RelativeUrl == <<"/clip.mp4">>
BrokenUrl == <<"http://", "[">>
DataUrl == <<"data:", "audio/x">>
PageOrigin == <<"https://", "site.test">>

HostLabels == {"www.", "youtube.com", "site.test"}

MediaAttrs(tag, src, dataSrc, dataUrl, source, title, ariaLabel, dataTitle) ==
    [tag |-> tag, src |-> src, dataSrc |-> dataSrc, dataUrl |-> dataUrl,
     source |-> source, title |-> title, ariaLabel |-> ariaLabel, dataTitle |-> dataTitle]

\* The media elements pages are built from; source is the src of a nested
\* <source> element, <<>> when there is none.
MediaElements ==
    { MediaAttrs("IFRAME", YouTubeUrl, <<>>, <<>>, <<>>, <<"My Video">>, <<>>, <<>>),
      MediaAttrs("IFRAME", <<>>, <<>>, <<>>, <<>>, <<>>, <<>>, <<>>),
      MediaAttrs("IFRAME", BrokenUrl, <<>>, <<>>, <<>>, <<>>, <<"Clip">>, <<>>),
      MediaAttrs("IFRAME", <<>>, <<>>, <<>>, RelativeUrl, <<>>, <<>>, <<>>),
      MediaAttrs("VIDEO", <<>>, <<>>, <<>>, RelativeUrl, <<>>, <<>>, <<>>),
      MediaAttrs("VIDEO", <<>>, <<>>, RelativeUrl, YouTubeUrl, <<"My Video">>, <<"Clip">>, <<>>),
      MediaAttrs("AUDIO", <<>>, DataUrl, <<>>, <<>>, <<>>, <<>>, <<"Song">>) }

\* A media element with the index of the media element it is nested in (0 when
\* none).  Only video and audio parse their content into child elements.
MediaNode == [elem : MediaElements, parent : 0..MaxMedia]

RECURSIVE MediaAncestors(_, _)
MediaAncestors(nodes, i) ==
    IF nodes[i].parent = 0 THEN {}
    ELSE {nodes[i].parent} \cup MediaAncestors(nodes, nodes[i].parent)

\* Document order: an element follows the element it is nested in, and is
\* nested in the previous element or in one of that element's ancestors.
MediaInDocumentOrder(nodes) ==
    \A i \in 1..Len(nodes) :
        /\ nodes[i].parent < i
        /\ nodes[i].parent # 0 =>
               /\ nodes[nodes[i].parent].elem.tag \in {"VIDEO", "AUDIO"}
               /\ nodes[i].parent \in {i - 1} \cup MediaAncestors(nodes, i - 1)

MediaTrees ==
    { nodes \in UNION { [1..n -> MediaNode] : n \in 0..MaxMedia } :
          MediaInDocumentOrder(nodes) }

\* a || b || c || '' over attribute values
FirstNonEmpty(values) ==
    IF \E i \in 1..Len(values) : values[i] # <<>>
    THEN values[CHOOSE i \in 1..Len(values) :
                    values[i] # <<>> /\ \A j \in 1..(i - 1) : values[j] = <<>>]
    ELSE <<>>

\* rawSrc: the element's own attributes, then for video and audio the first
\* nested <source>.
RawSrc(e) ==
    LET own == FirstNonEmpty(<<e.src, e.dataSrc, e.dataUrl>>)
    IN  IF own = <<>> /\ e.tag \in {"VIDEO", "AUDIO"} THEN e.source ELSE own

\* new URL(rawSrc, location.href) throws for a host that cannot be parsed.
UrlThrows(url) == \E i \in 1..Len(url) : url[i] = "["

IsAbsolute(url) == url # <<>> /\ url[1] \in {"https://", "http://", "data:"}

\* resolvedUrl: the absolute form, or the raw string when resolving throws.
ResolvedUrl(e) ==
    LET rawSrc == RawSrc(e)
    IN  IF rawSrc = <<>> THEN <<>>
        ELSE IF UrlThrows(rawSrc) THEN rawSrc
        ELSE IF IsAbsolute(rawSrc) THEN rawSrc
        ELSE PageOrigin \o rawSrc

\* url.hostname
Hostname(url) ==
    LET IsHostLabel(t) == t \in HostLabels
    IN  SelectSeq(url, IsHostLabel)

\* A variant of Provider that keeps the leading www.
ProviderWithWww(resolvedUrl) ==
    IF resolvedUrl = <<>> \/ UrlThrows(resolvedUrl) THEN <<>>
    ELSE Hostname(resolvedUrl)

\* provider: url.hostname.replace(/^www\./, ''), '' when new URL throws.
Provider(resolvedUrl) ==
    IF resolvedUrl = <<>> \/ UrlThrows(resolvedUrl) THEN <<>>
    ELSE LET host == Hostname(resolvedUrl)
         IN  IF host # <<>> /\ host[1] = "www." THEN Tail(host) ELSE host

MediaTitle(e) == FirstNonEmpty(<<e.title, e.ariaLabel, e.dataTitle>>)

\* node.nodeName.toLowerCase()
MediaType(e) ==
    CASE e.tag = "IFRAME" -> "iframe" [] e.tag = "VIDEO" -> "video" [] e.tag = "AUDIO" -> "audio"

\* parts.join(' - '): the text of the blockquote.
MediaDescription(e) ==
    LET resolvedUrl == ResolvedUrl(e)
        provider == Provider(resolvedUrl)
        title == MediaTitle(e)
        parts == <<<<"Embedded ", MediaType(e)>>>>
                   \o (IF provider # <<>> THEN <<<<"from ">> \o provider>> ELSE <<>>)
                   \o (IF title # <<>> THEN <<<<"\"">> \o title \o <<"\"">>>> ELSE <<>>)
                   \o (IF resolvedUrl # <<>> THEN <<resolvedUrl>> ELSE <<>>)
    IN  JoinWith(parts, <<" - ">>)

IdleEM ==
    /\ emNodes = <<>>
    /\ emSlots = <<>>
    /\ emPos = 1
    /\ emReturned = FALSE

StartEM ==
    /\ emNodes \in MediaTrees
    /\ emSlots = [i \in 1..Len(emNodes) |-> <<"media">>]
    /\ emPos = 1
    /\ emReturned = FALSE

\* One call of the mediaNodes.forEach callback: node.replaceWith(blockquote).
\* The list is static, so an element nested in an already replaced one is
\* still visited and replaced inside the detached subtree.
DescribeMedia ==
    /\ ~emReturned
    /\ emPos <= Len(emNodes)
    /\ emSlots' = [emSlots EXCEPT ![emPos] = MediaDescription(emNodes[emPos].elem)]
    /\ emPos' = emPos + 1
    /\ UNCHANGED <<emNodes, emReturned>>

DescribeReturns ==
    /\ ~emReturned
    /\ emPos > Len(emNodes)
    /\ emReturned' = TRUE
    /\ UNCHANGED <<emNodes, emSlots, emPos>>

\* TRUE when the node at slot i is still reachable from the root: every media
\* element it is nested in is still in the tree.
RECURSIVE MediaInRoot(_)
MediaInRoot(i) ==
    emNodes[i].parent = 0
        \/ (emSlots[emNodes[i].parent] = <<"media">> /\ MediaInRoot(emNodes[i].parent))

\* TRUE when part occurs in text as a run of consecutive tokens.
C20_Contains(text, part) ==
    \E k \in 0..(Len(text) - Len(part)) : SubSeq(text, k + 1, k + Len(part)) = part

\* C20: after describeEmbeddedMedia the root contains no iframe, video or
\* audio element: each one, nested ones included, has been replaced in place by
\* a blockquote whose text begins 'Embedded <tag>' and includes 'from
\* <provider>' (hostname without leading 'www.'), the quoted title and the URL
\* exactly when each is non-empty; an unresolvable source URL is kept as the
\* raw string.
C20_MediaReplacedByDescription ==
    emReturned =>
      /\ \A i \in 1..Len(emNodes) : MediaInRoot(i) => emSlots[i] # <<"media">>
      /\ \A i \in 1..Len(emNodes) :
            LET e    == emNodes[i].elem
                text == emSlots[i]
                url  == ResolvedUrl(e)
                host == Hostname(url)
                bare == IF host # <<>> /\ host[1] = "www." THEN Tail(host) ELSE host
            IN  /\ text # <<"media">>
                /\ StartsWith(text, <<"Embedded ", MediaType(e)>>)
                /\ IF bare # <<>> /\ ~UrlThrows(url)
                   THEN C20_Contains(text, <<"from ">> \o bare)
                            /\ ~C20_Contains(text, <<"www.">> \o bare \o <<" - ">>)
                   ELSE ~C20_Contains(text, <<"from ">>)
                /\ IF MediaTitle(e) # <<>>
                   THEN C20_Contains(text, <<"\"">> \o MediaTitle(e) \o <<"\"">>)
                   ELSE ~C20_Contains(text, <<"\"">>)
                /\ IF url # <<>>
                   THEN SubSeq(text, Len(text) - Len(url) + 1, Len(text)) = url
                   ELSE Len(text) = 2
                /\ UrlThrows(RawSrc(e)) => url = RawSrc(e)

\* A video with a nested iframe whose source cannot be resolved: both were
\* described, the inner one keeping its raw source string; its blockquote
\* stands inside the video element that has left the tree.
C20_Witness ==
    /\ emReturned
    /\ \E i, j \in 1..Len(emNodes) :
           /\ emNodes[j].parent = i
           /\ emNodes[i].elem.tag = "VIDEO"
           /\ emNodes[j].elem.src = BrokenUrl
           /\ emSlots[j] = <<"Embedded ", "iframe", " - ", "\"", "Clip", "\"", " - ",
                             "http://", "[">>
           /\ C20_Contains(emSlots[i], <<"from ", "site.test">>)
           /\ ~MediaInRoot(j)

-----------------------------------------------------------------------------
(* chooseBestSrcFromSrcset                                                  *)

MaxEntries == 3

SrcsetUrls == {<<"a">>, <<"b">>}

\* Descriptors as written after the url; <<>> is "no descriptor".
SrcsetDescriptors ==
    {<<>>, <<"2", "x">>, <<"1", "w">>, <<"1", "0", "0", "w">>,
     <<"2", "0", "0", "w">>, <<"q">>, <<".", "w">>}

\* The text between two commas: blank, or a url with an optional descriptor.
SrcsetEntries ==
    {<<>>, <<" ">>}
    \cup {u \o (IF d = <<>> THEN <<>> ELSE <<" ">> \o d) :
              u \in SrcsetUrls, d \in SrcsetDescriptors}
    \cup {<<" ">> \o u \o <<" ", " ">> \o d \o <<" ">> :
              u \in {<<"b">>}, d \in {<<"2", "0", "0", "w">>}}

Srcsets ==
    {JoinWith(es, <<",">>) :
        es \in UNION {[1..n -> SrcsetEntries] : n \in 0..MaxEntries}}

\* entry.split(/\s+/) for a trimmed entry: its white-space separated words.
RECURSIVE SplitWords(_)
SplitWords(s) ==
    IF \E i \in 1..Len(s) : IsSpace(s[i])
    THEN LET i == CHOOSE k \in 1..Len(s) :
                      IsSpace(s[k]) /\ \A j \in 1..(k - 1) : ~IsSpace(s[j])
         IN  <<SubSeq(s, 1, i - 1)>> \o SplitWords(TrimStart(SubSeq(s, i, Len(s))))
    ELSE <<s>>

NumberChars == DigitChars \cup {"."}

\* Index of the last character of the run of [\d.] that starts at i.
RECURSIVE RunEnd(_, _)
RunEnd(d, i) ==
    IF i < Len(d) /\ d[i + 1] \in NumberChars THEN RunEnd(d, i + 1) ELSE i

\* descriptor.match(/([\d.]+)(w|x)/): <<match[1], match[2]>> of the leftmost
\* match, <<>> when there is none.
DescriptorMatch(d) ==
    LET Starts == {i \in 1..Len(d) :
                      /\ d[i] \in NumberChars
                      /\ RunEnd(d, i) < Len(d)
                      /\ d[RunEnd(d, i) + 1] \in {"w", "x"}}
    IN  IF Starts = {} THEN <<>>
        ELSE LET i == CHOOSE k \in Starts : \A j \in Starts : k <= j
             IN  <<SubSeq(d, i, RunEnd(d, i)), d[RunEnd(d, i) + 1]>>

\* parseFloat(s) in hundredths, NaN when s does not start with a number.
ParseFloat(s) ==
    LET int  == LeadingDigits(s)
        rest == SubSeq(s, Len(int) + 1, Len(s))
        frac == IF rest # <<>> /\ Head(rest) = "." THEN LeadingDigits(Tail(rest))
                ELSE <<>>
        two  == SubSeq(frac \o <<"0", "0">>, 1, 2)
    IN  IF int = <<>> /\ frac = <<>> THEN NaN
        ELSE DigitsValue(int) * 100 + DigitsValue(two)

Times100(v) == IF v = NaN THEN NaN ELSE v * 100

\* The score of a candidate, in hundredths (score = 1 is 100).
DescriptorScore(descriptor) ==
    IF descriptor = <<>> THEN 100
    ELSE LET match == DescriptorMatch(descriptor)
         IN  IF match = <<>> THEN 100
             ELSE IF match[2] = "w" THEN ParseFloat(match[1])
             ELSE Times100(ParseFloat(match[1]))

ParseCandidate(entry) ==
    LET words == SplitWords(entry)
    IN  [url |-> words[1],
         score |-> DescriptorScore(IF Len(words) >= 2 THEN words[2] ELSE <<>>)]

TrimmedEntries(srcset) ==
    SelectSeq([i \in 1..Len(SplitOn(srcset, ",")) |-> Trim(SplitOn(srcset, ",")[i])],
              LAMBDA e : e # <<>>)

ParseCandidates(srcset) ==
    SelectSeq([i \in 1..Len(TrimmedEntries(srcset)) |->
                   ParseCandidate(TrimmedEntries(srcset)[i])],
              LAMBDA c : c.url # <<>>)

\* The comparator (a, b) => b.score - a.score as sort sees it: a NaN
\* difference counts as +0.
CompareScores(a, b) ==
    IF a.score = NaN \/ b.score = NaN THEN 0
    ELSE IF b.score < a.score THEN -1
    ELSE IF b.score > a.score THEN 1 ELSE 0

\* ECMAScript's "consistent comparator" over the values being sorted.
ConsistentComparator(cs) ==
    \A i, j, k \in 1..Len(cs) :
        /\ (CompareScores(cs[i], cs[j]) = 0 /\ CompareScores(cs[j], cs[k]) = 0
               => CompareScores(cs[i], cs[k]) = 0)
        /\ (CompareScores(cs[i], cs[j]) < 0 /\ CompareScores(cs[j], cs[k]) < 0
               => CompareScores(cs[i], cs[k]) < 0)
        /\ (CompareScores(cs[i], cs[j]) > 0 /\ CompareScores(cs[j], cs[k]) > 0
               => CompareScores(cs[i], cs[k]) > 0)

OrdersOf(cs) ==
    {p \in [1..Len(cs) -> 1..Len(cs)] : \A i, j \in 1..Len(cs) : i # j => p[i] # p[j]}

\* The orders Array.prototype.sort may leave the candidates in: the stable
\* descending order for a consistent comparator, any order otherwise.
SortOutcomes(cs) ==
    IF ConsistentComparator(cs)
    THEN {p \in OrdersOf(cs) :
             \A i, j \in 1..Len(cs) :
                 i < j => \/ CompareScores(cs[p[i]], cs[p[j]]) < 0
                          \/ (CompareScores(cs[p[i]], cs[p[j]]) = 0 /\ p[i] < p[j])}
    ELSE OrdersOf(cs)

IdleSS ==
    ssSrcset = <<>> /\ ssCandidates = <<>> /\ ssPc = "idle" /\ ssResult = "none"

StartSS ==
    /\ ssSrcset \in Srcsets
    /\ ssCandidates = <<>>
    /\ ssPc = "start"
    /\ ssResult = "none"

\* The split/trim/filter/map/filter chain of lines 46-66.
SrcsetParses ==
    /\ ssPc = "start"
    /\ ssCandidates' = ParseCandidates(ssSrcset)
    /\ ssPc' = "parsed"
    /\ UNCHANGED <<ssSrcset, ssResult>>

\* if (candidates.length === 0) return null
SrcsetReturnsNull ==
    /\ ssPc = "parsed"
    /\ ssCandidates = <<>>
    /\ ssResult' = "null"
    /\ ssPc' = "done"
    /\ UNCHANGED <<ssSrcset, ssCandidates>>

\* candidates.sort(...); return candidates[0]?.url || null
SrcsetSortsAndReturns ==
    /\ ssPc = "parsed"
    /\ ssCandidates # <<>>
    /\ \E p \in SortOutcomes(ssCandidates) :
          /\ ssCandidates' = [i \in 1..Len(ssCandidates) |-> ssCandidates[p[i]]]
          /\ ssResult' = IF ssCandidates[p[1]].url = <<>> THEN "null"
                         ELSE ssCandidates[p[1]].url
    /\ ssPc' = "done"
    /\ UNCHANGED ssSrcset

\* What the descriptor grammar assigns to a candidate: "<number>w" scores the
\* number, "<number>x" a hundred times it, anything else 1 (in hundredths).
IsNumber(s) == s # <<>> /\ ParseFloat(s) # NaN /\ \A i \in 1..Len(s) : s[i] \in NumberChars

DescriptorGrammarScore(d) ==
    IF Len(d) >= 2 /\ d[Len(d)] \in {"w", "x"} /\ IsNumber(SubSeq(d, 1, Len(d) - 1))
    THEN IF d[Len(d)] = "w" THEN ParseFloat(SubSeq(d, 1, Len(d) - 1))
         ELSE ParseFloat(SubSeq(d, 1, Len(d) - 1)) * 100
    ELSE 100

ListedCandidates(srcset) ==
    LET es == TrimmedEntries(srcset)
    IN  [i \in 1..Len(es) |->
            [url |-> SplitWords(es[i])[1],
             score |-> DescriptorGrammarScore(
                           IF Len(SplitWords(es[i])) >= 2 THEN SplitWords(es[i])[2]
                           ELSE <<>>)]]

FirstTopCandidate(cs) ==
    CHOOSE i \in 1..Len(cs) :
        /\ \A j \in 1..Len(cs) : cs[j].score <= cs[i].score
        /\ \A j \in 1..(i - 1) : cs[j].score < cs[i].score

\* C21: chooseBestSrcFromSrcset returns the url of the first-listed candidate
\* among those with the highest score ("<n>w" scores n, "<n>x" scores 100 n,
\* a missing or unrecognised descriptor scores 1), and returns null exactly
\* when the input has no non-empty comma-separated entry.
C21_BestCandidateReturned ==
    ssPc = "done" =>
        LET cs == ListedCandidates(ssSrcset)
        IN  /\ (ssResult = "null") <=> (cs = <<>>)
            /\ cs # <<>> => ssResult = cs[FirstTopCandidate(cs)].url

-----------------------------------------------------------------------------
(* escapeYaml inside buildFrontMatter                                       *)

MaxYamlLen == 2

\* Characters of a metadata value: the five escapeYaml rewrites, and the
\* letters their escapes are written with.
YamlChars == {"a", "n", "\\", "\"", "\n", "\r", "\t"}

YamlTexts == UNION {[1..n -> YamlChars] : n \in 0..MaxYamlLen}

IdleEY ==
    eyTexts = <<>> /\ eyEscaped = <<>> /\ eyFront = <<>> /\ eyPc = "idle"

StartEY ==
    /\ eyTexts \in YamlTexts \X YamlTexts
    /\ eyEscaped = <<>>
    /\ eyFront = <<>>
    /\ eyPc = "input"

\* buildFrontMatter(meta), which escapes title, author and description.
BuildFrontMatter ==
    /\ eyPc = "input"
    /\ eyEscaped' = <<escapeYaml(eyTexts[1]), escapeYaml(eyTexts[2])>>
    /\ eyFront' = buildFrontMatter([title |-> eyTexts[1], source |-> <<"u">>,
                                    retrieved |-> <<"r">>, author |-> eyTexts[2],
                                    description |-> eyTexts[1]])
    /\ eyPc' = "built"
    /\ UNCHANGED eyTexts

\* The number of backslashes that stand right before position i of s.
RECURSIVE BackslashesBefore(_, _)
BackslashesBefore(s, i) ==
    IF i > 1 /\ s[i - 1] = "\\" THEN 1 + BackslashesBefore(s, i - 1) ELSE 0

\* s has no raw newline, carriage return or tab, and every double quote in it
\* is escaped by a backslash that is not itself escaped.
SafeInQuotes(s) ==
    \A i \in 1..Len(s) :
        /\ s[i] \notin {"\n", "\r", "\t"}
        /\ s[i] = "\"" => BackslashesBefore(s, i) % 2 = 1

Quoted(key, value) == key \o <<":", " ", "\"">> \o value \o <<"\"">>

\* C23: the escaped title, author and description that buildFrontMatter writes
\* hold no raw newline, carriage return or tab and no unescaped double quote,
\* so the front matter is exactly nine lines, the value lines being its
\* second, fifth and sixth and the closing '---' its last; and two different
\* values never escape to the same text.
C23_EscapedValuesStayOnOneLine ==
    eyPc = "built" =>
        LET lines == SplitOn(eyFront, "\n")
        IN  /\ SafeInQuotes(eyEscaped[1]) /\ SafeInQuotes(eyEscaped[2])
            /\ Len(lines) = 9
            /\ lines[1] = Dashes /\ lines[9] = Dashes
            /\ lines[2] = Quoted(<<"t", "i", "t", "l", "e">>, eyEscaped[1])
            /\ lines[5] = Quoted(<<"a", "u", "t", "h", "o", "r">>, eyEscaped[2])
            /\ lines[6] = Quoted(<<"d", "e", "s", "c", "r", "i", "p", "t", "i", "o", "n">>,
                                 eyEscaped[1])
            /\ eyTexts[1] # eyTexts[2] => eyEscaped[1] # eyEscaped[2]

\* A title with a line break and a quote, and an author that is the title's
\* escaped spelling begun: both were escaped, to different texts.
C23_Witness ==
    /\ eyPc = "built"
    /\ eyTexts[1] = <<"\n", "\"">>
    /\ eyTexts[2] = <<"\\", "n">>
    /\ eyEscaped[1] = <<"\\", "n", "\\", "\"">>
    /\ eyEscaped[2] = <<"\\", "\\", "n">>

-----------------------------------------------------------------------------
(* buildOutput                                                              *)

MaxContentLen == 3

TocHeading ==
    <<"#", "#", " ", "T", "a", "b", "l", "e", " ", "o", "f", " ",
      "C", "o", "n", "t", "e", "n", "t", "s">>

OutputFrontMatters ==
    {<<>>, buildFrontMatter([title |-> <<"t">>, source |-> <<"u">>, retrieved |-> <<"r">>,
                             author |-> <<>>, description |-> <<>>])}

OutputTocs ==
    {<<>>, <<"-", " ", "A">>, <<"-", " ", "A", "\n", " ", " ", "-", " ", "B">>}

OutputContents == UNION {[1..n -> {"b", "\n", "-"}] : n \in 0..MaxContentLen}

\* buildOutput that leaves an empty toc out of the joined list.
buildOutputWithoutEmptyToc(frontMatter, tocText, content) ==
    JoinWith(SelectSeq(<<frontMatter, <<>>, TocHeading, <<>>, tocText, <<>>, Dashes, <<>>, content>>,
                       LAMBDA part : part # <<>> \/ tocText # <<>>),
             <<"\n">>)

buildOutput(frontMatter, tocText, content) ==
    JoinWith(<<frontMatter, <<>>, TocHeading, <<>>, tocText, <<>>, Dashes, <<>>, content>>,
             <<"\n">>)

IdleBO == boParts = <<>> /\ boOutput = <<>> /\ boPc = "idle"

StartBO ==
    /\ boParts \in OutputFrontMatters \X OutputTocs \X OutputContents
    /\ boOutput = <<>>
    /\ boPc = "input"

BuildOutput ==
    /\ boPc = "input"
    /\ boOutput' = buildOutput(boParts[1], boParts[2], boParts[3])
    /\ boPc' = "built"
    /\ UNCHANGED boParts

\* C24: buildOutput(frontMatter, tocText, content) is the front matter, an empty
\* line, '## Table of Contents', an empty line, the toc, an empty line, '---',
\* an empty line and the content, each followed by one newline except the
\* content; an empty toc changes nothing in that layout.
C24_OutputLayout ==
    boPc = "built" =>
        boOutput = boParts[1] \o <<"\n", "\n">> \o TocHeading \o <<"\n", "\n">>
                       \o boParts[2] \o <<"\n", "\n">> \o Dashes \o <<"\n", "\n">>
                       \o boParts[3]

\* An output was built for an empty toc and a content of several lines.
C24_Witness ==
    /\ boPc = "built"
    /\ boParts[2] = <<>>
    /\ boParts[3] = <<"b", "\n", "b">>
    /\ Len(SplitOn(boOutput, "\n")) = Len(SplitOn(boParts[1], "\n")) + 9

-----------------------------------------------------------------------------
(* rules.ts: loadCustomConfigs, saveCustomConfig, removeCustomConfig,       *)
(* resetCustomConfigs                                                       *)

\* At most this many calls of the store's functions in one run.
MaxCalls == 2

\* Hostnames: one with a built-in configuration, one without.
Domains == {"medium.com", "blog.test"}

\* Configurations: the built-in one of medium.com and two user-defined ones.
\* "none" stands for a key the object does not have.
CustomConfigs == {"custom1", "custom2"}

defaultDomainConfigs == [d \in Domains |-> IF d = "medium.com" THEN "article" ELSE "none"]

NoConfigs == [d \in Domains |-> "none"]

\* { ...base, ...overrides }
MergeConfigs(base, overrides) ==
    [d \in Domains |-> IF overrides[d] # "none" THEN overrides[d] ELSE base[d]]

NothingStored == [set |-> FALSE, map |-> NoConfigs]

\* The calls the options page and the content script can make.
StoreCalls(version) ==
    {[op |-> "load", domain |-> "-", config |-> "none"]}
    \cup {[op |-> "save", domain |-> d, config |-> c] : d \in Domains, c \in CustomConfigs}
    \cup (IF version = "current"
          THEN {[op |-> "remove", domain |-> d, config |-> "none"] : d \in Domains}
                   \cup {[op |-> "reset", domain |-> "-", config |-> "none"]}
          ELSE {})

IdleRL ==
    /\ rlVersion = "none"
    /\ rlStored = NothingStored
    /\ rlCache = NoConfigs
    /\ rlCalls = <<>>

\* export const domainConfigs = { ...defaultDomainConfigs }, nothing stored yet.
StartRL ==
    /\ rlVersion \in {"current", "legacy"}
    /\ rlStored = NothingStored
    /\ rlCache = defaultDomainConfigs
    /\ rlCalls = <<>>

\* A function of the store is called; it runs up to its first await.
CallStarts ==
    /\ Len(rlCalls) < MaxCalls
    /\ \E call \in StoreCalls(rlVersion) :
          rlCalls' = Append(rlCalls,
                            [op |-> call.op, domain |-> call.domain, config |-> call.config,
                             pc |-> IF call.op = "reset" THEN "remove" ELSE "get",
                             read |-> NothingStored])
    /\ UNCHANGED <<rlVersion, rlStored, rlCache>>

\* await chrome.storage.sync.get('domainConfigs') resolves for one call.
StorageGetResolves ==
    \E i \in 1..Len(rlCalls) :
        /\ rlCalls[i].pc = "get"
        /\ rlCalls' = [rlCalls EXCEPT ![i].read = rlStored, ![i].pc = "got"]
        /\ UNCHANGED <<rlVersion, rlStored, rlCache>>

\* loadCustomConfigs after its await: the cache becomes defaults plus overrides
\* (the legacy copy leaves the cache alone when nothing is stored).
LoadAssigns ==
    \E i \in 1..Len(rlCalls) :
        /\ rlCalls[i].op = "load" /\ rlCalls[i].pc = "got"
        /\ rlCache' = IF rlVersion = "legacy" /\ ~rlCalls[i].read.set THEN rlCache
                      ELSE MergeConfigs(defaultDomainConfigs, rlCalls[i].read.map)
        /\ rlCalls' = [rlCalls EXCEPT ![i].pc = "done"]
        /\ UNCHANGED <<rlVersion, rlStored>>

\* saveCustomConfig: chrome.storage.sync.set of what was read plus the new entry.
SaveWrites ==
    \E i \in 1..Len(rlCalls) :
        /\ rlCalls[i].op = "save" /\ rlCalls[i].pc = "got"
        /\ rlStored' = [set |-> TRUE,
                        map |-> [rlCalls[i].read.map EXCEPT
                                    ![rlCalls[i].domain] = rlCalls[i].config]]
        /\ rlCalls' = [rlCalls EXCEPT ![i].pc = "set"]
        /\ UNCHANGED <<rlVersion, rlCache>>

\* saveCustomConfig after await set: domainConfigs[domain] = config
SaveUpdatesCache ==
    \E i \in 1..Len(rlCalls) :
        /\ rlCalls[i].op = "save" /\ rlCalls[i].pc = "set"
        /\ rlCache' = [rlCache EXCEPT ![rlCalls[i].domain] = rlCalls[i].config]
        /\ rlCalls' = [rlCalls EXCEPT ![i].pc = "done"]
        /\ UNCHANGED <<rlVersion, rlStored>>

\* removeCustomConfig: delete configs[domain]; chrome.storage.sync.set(configs)
RemoveWrites ==
    \E i \in 1..Len(rlCalls) :
        /\ rlCalls[i].op = "remove" /\ rlCalls[i].pc = "got"
        /\ rlStored' = [set |-> TRUE,
                        map |-> [rlCalls[i].read.map EXCEPT ![rlCalls[i].domain] = "none"]]
        /\ rlCalls' = [rlCalls EXCEPT ![i].pc = "set"]
        /\ UNCHANGED <<rlVersion, rlCache>>

\* removeCustomConfig after await set: delete domainConfigs[domain]
RemoveUpdatesCache ==
    \E i \in 1..Len(rlCalls) :
        /\ rlCalls[i].op = "remove" /\ rlCalls[i].pc = "set"
        /\ rlCache' = [rlCache EXCEPT ![rlCalls[i].domain] = "none"]
        /\ rlCalls' = [rlCalls EXCEPT ![i].pc = "done"]
        /\ UNCHANGED <<rlVersion, rlStored>>

\* resetCustomConfigs: chrome.storage.sync.remove('domainConfigs')
ResetRemoves ==
    \E i \in 1..Len(rlCalls) :
        /\ rlCalls[i].op = "reset" /\ rlCalls[i].pc = "remove"
        /\ rlStored' = NothingStored
        /\ rlCalls' = [rlCalls EXCEPT ![i].pc = "removed"]
        /\ UNCHANGED <<rlVersion, rlCache>>

\* resetCustomConfigs after its await: clear the cache, assign the defaults.
ResetRestoresCache ==
    \E i \in 1..Len(rlCalls) :
        /\ rlCalls[i].op = "reset" /\ rlCalls[i].pc = "removed"
        /\ rlCache' = MergeConfigs(NoConfigs, defaultDomainConfigs)
        /\ rlCalls' = [rlCalls EXCEPT ![i].pc = "done"]
        /\ UNCHANGED <<rlVersion, rlStored>>

\* Call i returns in this step.
Completes(i) ==
    i <= Len(rlCalls) /\ rlCalls[i].pc # "done" /\ rlCalls'[i].pc = "done"

\* C26: when removeCustomConfig(domain) completes for a domain with a built-in
\* configuration, the cache holds the built-in configuration for it; when
\* resetCustomConfigs completes, the cache equals the built-in defaults.
C26_RemoveRestoresDefault ==
    [][\A i \in 1..MaxCalls :
          Completes(i) =>
              /\ (rlCalls[i].op = "remove"
                    /\ defaultDomainConfigs[rlCalls[i].domain] # "none")
                     => rlCache'[rlCalls[i].domain] = defaultDomainConfigs[rlCalls[i].domain]
              /\ rlCalls[i].op = "reset" => rlCache' = defaultDomainConfigs]_vars

\* C29: once two saveCustomConfig calls for different domains have both
\* completed, the stored overrides hold both domains and agree with the cache
\* on each.
C29_ConcurrentSavesBothPersisted ==
    \A i, j \in 1..Len(rlCalls) :
        (/\ i # j
         /\ rlCalls[i].op = "save" /\ rlCalls[j].op = "save"
         /\ rlCalls[i].domain # rlCalls[j].domain
         /\ rlCalls[i].pc = "done" /\ rlCalls[j].pc = "done"
         /\ \A k \in 1..Len(rlCalls) : rlCalls[k].op = "save")
            => /\ rlStored.map[rlCalls[i].domain] = rlCalls[i].config
               /\ rlStored.map[rlCalls[i].domain] = rlCache[rlCalls[i].domain]

-----------------------------------------------------------------------------
(* convertToMarkdown: postProcessMarkdown and renderFootnotes               *)

MaxNotes == 1

MaxNoteLen == 3

\* What Turndown can hand back for the body: any short Markdown string.
BodyMarkdowns == {s \in MarkdownStrings : Len(s) <= 2}

NoteMarkdowns == UNION {[1..n -> {"a", " ", "\n", "ldq"}] : n \in 0..MaxNoteLen}

\* The labels convertFootnotes gives the first footnotes of a page.
NoteLists ==
    UNION {[1..n -> [label : {<<"1">>}, markdown : NoteMarkdowns]] : n \in 0..MaxNotes}

\* One entry of the appendix; <<>> when the footnote renders to nothing.
RenderFootnote(footnote) ==
    LET markdown == Trim(footnote.markdown)
        indented == ReplaceChar(markdown, "\n", <<"\n", " ", " ", " ", " ">>)
    IN  IF markdown = <<>> THEN <<>>
        ELSE <<"[", "^">> \o footnote.label \o <<"]", ":", " ">> \o indented

renderFootnotes(notes) ==
    IF Len(notes) = 0 THEN <<>>
    ELSE JoinWith(SelectSeq([i \in 1..Len(notes) |-> RenderFootnote(notes[i])],
                            LAMBDA entry : entry # <<>>),
                  <<"\n">>)

\* The last five statements of convertToMarkdown.
AssembledMarkdown(body, notes) ==
    LET processedMarkdown == postProcessMarkdown(body)
        footnoteMarkdown  == renderFootnotes(notes)
    IN  IF footnoteMarkdown # <<>>
        THEN processedMarkdown \o <<"\n", "\n">> \o footnoteMarkdown
        ELSE processedMarkdown

IdleAP == apBody = <<>> /\ apNotes = <<>> /\ apMarkdown = <<>> /\ apPc = "idle"

StartAP ==
    /\ apBody \in BodyMarkdowns
    /\ apNotes \in NoteLists
    /\ apMarkdown = <<>>
    /\ apPc = "rendered"

ConvertAssembles ==
    /\ apPc = "rendered"
    /\ apMarkdown' = AssembledMarkdown(apBody, apNotes)
    /\ apPc' = "returned"
    /\ UNCHANGED <<apBody, apNotes>>

\* C28: the markdown convertToMarkdown returns, footnote appendix included,
\* has no curly quote or apostrophe, no non-breaking space, no line that ends
\* in white space and no run of three or more newlines.
C28_ReturnedMarkdownIsClean ==
    apPc = "returned" =>
        LET lines == SplitOn(apMarkdown, "\n")
        IN  /\ \A i \in 1..Len(apMarkdown) :
                   apMarkdown[i] \notin {"ldq", "rdq", "lsq", "rsq", "nbsp"}
            /\ \A i \in 1..Len(lines) : TrimEnd(lines[i]) = lines[i]
            /\ \A i \in 1..(Len(apMarkdown) - 2) :
                   ~(apMarkdown[i] = "\n" /\ apMarkdown[i + 1] = "\n"
                        /\ apMarkdown[i + 2] = "\n")

-----------------------------------------------------------------------------
(* toast.tsx: enqueueToast, flushQueue, ToastHost                           *)

\* At most this many toasts are requested in one run.
MaxToasts == 3

\* At most this many times the effect of ToastHost is cleaned up and re-run
\* (StrictMode's double invocation, a new manager object).
MaxRemounts == 2

ToastTypes == {"success", "error"}

IdleTS ==
    /\ tsRequested = <<>>
    /\ tsHost = "idle"
    /\ tsEnqueue = FALSE
    /\ tsPending = <<>>
    /\ tsAdded = <<>>
    /\ tsTimers = 0
    /\ tsFlushing = FALSE
    /\ tsRemounts = 0

\* let toastRoot = null; let enqueue = null; const pendingQueue = []
StartTS ==
    /\ tsRequested = <<>>
    /\ tsHost = "none"
    /\ tsEnqueue = FALSE
    /\ tsPending = <<>>
    /\ tsAdded = <<>>
    /\ tsTimers = 0
    /\ tsFlushing = FALSE
    /\ tsRemounts = 0

\* pendingQueue.pop(): the newest entry instead of the oldest.
Popped(queue) ==
    [item |-> queue[Len(queue)], rest |-> SubSeq(queue, 1, Len(queue) - 1)]

\* pendingQueue.shift()
Shifted(queue) == [item |-> Head(queue), rest |-> Tail(queue)]

\* showSuccessToast / showErrorToast: enqueueToast runs to its end.  The
\* handlers of the page run one at a time, so none starts inside a flush.
ShowToast ==
    /\ ~tsFlushing
    /\ Len(tsRequested) < MaxToasts
    /\ \E type \in ToastTypes :
          LET options == [id |-> Len(tsRequested) + 1, type |-> type]
          IN  /\ tsRequested' = Append(tsRequested, [options |-> options, met |-> tsHost])
              /\ IF tsEnqueue
                 THEN /\ tsAdded' = Append(tsAdded, options)
                      /\ UNCHANGED <<tsPending, tsTimers>>
                 ELSE /\ tsPending' = Append(tsPending, options)
                      /\ tsTimers' = tsTimers + 1
                      /\ UNCHANGED tsAdded
    /\ tsHost' = IF tsHost = "none" THEN "rendering" ELSE tsHost
    /\ UNCHANGED <<tsEnqueue, tsFlushing, tsRemounts>>

\* The setTimeout callback: flushQueue returns at once without the callback.
TimerFires ==
    /\ ~tsFlushing
    /\ tsTimers > 0
    /\ tsTimers' = tsTimers - 1
    /\ tsFlushing' = tsEnqueue
    /\ UNCHANGED <<tsRequested, tsHost, tsEnqueue, tsPending, tsAdded, tsRemounts>>

\* The effect of ToastHost runs: it registers the callback and calls flushQueue.
EffectRuns ==
    /\ ~tsFlushing
    /\ tsHost \in {"rendering", "cleaned"}
    /\ tsEnqueue' = TRUE
    /\ tsHost' = "mounted"
    /\ tsFlushing' = TRUE
    /\ UNCHANGED <<tsRequested, tsPending, tsAdded, tsTimers, tsRemounts>>

\* One turn of while (pendingQueue.length > 0) enqueue(pendingQueue.shift()).
FlushStep ==
    /\ tsFlushing
    /\ tsPending # <<>>
    /\ tsAdded' = Append(tsAdded, Shifted(tsPending).item)
    /\ tsPending' = Shifted(tsPending).rest
    /\ UNCHANGED <<tsRequested, tsHost, tsEnqueue, tsTimers, tsFlushing, tsRemounts>>

\* The loop condition fails and flushQueue returns.
FlushEnds ==
    /\ tsFlushing
    /\ tsPending = <<>>
    /\ tsFlushing' = FALSE
    /\ UNCHANGED <<tsRequested, tsHost, tsEnqueue, tsPending, tsAdded, tsTimers, tsRemounts>>

\* The cleanup of the effect: enqueue = null.  React runs the effect again
\* afterwards (the root is never unmounted).
EffectCleanup ==
    /\ ~tsFlushing
    /\ tsHost = "mounted"
    /\ tsRemounts < MaxRemounts
    /\ tsEnqueue' = FALSE
    /\ tsHost' = "cleaned"
    /\ tsRemounts' = tsRemounts + 1
    /\ UNCHANGED <<tsRequested, tsPending, tsAdded, tsTimers, tsFlushing>>

RequestedOptions == [i \in 1..Len(tsRequested) |-> tsRequested[i].options]

\* Every requested toast is with the manager or in pendingQueue, once, and in
\* request order; the queue is empty when the callback is registered and no
\* flush is running.
C30_Accounted ==
    /\ tsAdded \o tsPending = RequestedOptions
    /\ (tsEnqueue /\ ~tsFlushing) => tsPending = <<>>

\* C30: every toast requested through showSuccessToast or showErrorToast is
\* eventually handed to the toast manager, exactly once and in request order,
\* also when it was requested before the host mounted or between a cleanup and
\* the re-mount; and whenever the enqueue callback is registered and no flush
\* is in progress, pendingQueue is empty.
C30_ToastsDeliveredInOrder ==
    /\ []C30_Accounted
    /\ \A k \in 1..MaxToasts :
           (Len(tsRequested) >= k) ~> (Len(tsAdded) >= k /\ tsAdded[k] = tsRequested[k].options)

\* Toasts requested before the first mount and between a cleanup and the
\* re-mount have all reached the manager.
C30_Witness ==
    /\ Len(tsRequested) >= 2
    /\ \E i \in 1..Len(tsRequested) : tsRequested[i].met \in {"none", "rendering"}
    /\ \E i \in 1..Len(tsRequested) : tsRequested[i].met = "cleaned"
    /\ tsAdded = RequestedOptions
    /\ tsPending = <<>>

-----------------------------------------------------------------------------
(* Specifications                                                           *)

InitTOC == StartTOC /\ IdlePP /\ IdleFM /\ IdleFN /\ IdleClean /\ IdleLoc /\ IdleCV /\ IdlePG /\ IdleBG /\ IdleNL /\ IdleUH /\ IdleEM /\ IdleSS /\ IdleEY /\ IdleBO /\ IdleRL /\ IdleAP /\ IdleTS
NextTOC == GenerateTOCStep /\ UNCHANGED <<ppVars, fmVars, fnVars, cleanVars, locVars, cvVars, pgVars, bgVars, nlVars, uhVars, emVars, ssVars, eyVars, boVars, rlVars, apVars, tsVars>>
SpecTOC == InitTOC /\ [][NextTOC]_vars

InitPP == IdleTOC /\ StartPP /\ IdleFM /\ IdleFN /\ IdleClean /\ IdleLoc /\ IdleCV /\ IdlePG /\ IdleBG /\ IdleNL /\ IdleUH /\ IdleEM /\ IdleSS /\ IdleEY /\ IdleBO /\ IdleRL /\ IdleAP /\ IdleTS
NextPP ==
    \/ PostProcessOnce /\ UNCHANGED <<tocVars, fmVars, fnVars, cleanVars, locVars, cvVars, pgVars, bgVars, nlVars, uhVars, emVars, ssVars, eyVars, boVars, rlVars, apVars, tsVars>>
    \/ PostProcessAgain /\ UNCHANGED <<tocVars, fmVars, fnVars, cleanVars, locVars, cvVars, pgVars, bgVars, nlVars, uhVars, emVars, ssVars, eyVars, boVars, rlVars, apVars, tsVars>>
SpecPostProcess == InitPP /\ [][NextPP]_vars

InitFM == IdleTOC /\ IdlePP /\ StartFM /\ IdleFN /\ IdleClean /\ IdleLoc /\ IdleCV /\ IdlePG /\ IdleBG /\ IdleNL /\ IdleUH /\ IdleEM /\ IdleSS /\ IdleEY /\ IdleBO /\ IdleRL /\ IdleAP /\ IdleTS
NextFM ==
    \/ BuildDocument /\ UNCHANGED <<tocVars, ppVars, fnVars, cleanVars, locVars, cvVars, pgVars, bgVars, nlVars, uhVars, emVars, ssVars, eyVars, boVars, rlVars, apVars, tsVars>>
    \/ StripDocument /\ UNCHANGED <<tocVars, ppVars, fnVars, cleanVars, locVars, cvVars, pgVars, bgVars, nlVars, uhVars, emVars, ssVars, eyVars, boVars, rlVars, apVars, tsVars>>
SpecFrontMatter == InitFM /\ [][NextFM]_vars

InitFN == IdleTOC /\ IdlePP /\ IdleFM /\ StartFN /\ IdleClean /\ IdleLoc /\ IdleCV /\ IdlePG /\ IdleBG /\ IdleNL /\ IdleUH /\ IdleEM /\ IdleSS /\ IdleEY /\ IdleBO /\ IdleRL /\ IdleAP /\ IdleTS
NextFN ==
    \/ ProcessSup /\ UNCHANGED <<tocVars, ppVars, fmVars, cleanVars, locVars, cvVars, pgVars, bgVars, nlVars, uhVars, emVars, ssVars, eyVars, boVars, rlVars, apVars, tsVars>>
    \/ ProcessAnchor /\ UNCHANGED <<tocVars, ppVars, fmVars, cleanVars, locVars, cvVars, pgVars, bgVars, nlVars, uhVars, emVars, ssVars, eyVars, boVars, rlVars, apVars, tsVars>>
    \/ ReturnFootnotes /\ UNCHANGED <<tocVars, ppVars, fmVars, cleanVars, locVars, cvVars, pgVars, bgVars, nlVars, uhVars, emVars, ssVars, eyVars, boVars, rlVars, apVars, tsVars>>
SpecFootnotes == InitFN /\ [][NextFN]_vars

InitClean == IdleTOC /\ IdlePP /\ IdleFM /\ IdleFN /\ StartClean /\ IdleLoc /\ IdleCV /\ IdlePG /\ IdleBG /\ IdleNL /\ IdleUH /\ IdleEM /\ IdleSS /\ IdleEY /\ IdleBO /\ IdleRL /\ IdleAP /\ IdleTS
NextClean ==
    \/ RemoveBySelectors /\ UNCHANGED <<tocVars, ppVars, fmVars, fnVars, locVars, cvVars, pgVars, bgVars, nlVars, uhVars, emVars, ssVars, eyVars, boVars, rlVars, apVars, tsVars>>
    \/ VisitElement /\ UNCHANGED <<tocVars, ppVars, fmVars, fnVars, locVars, cvVars, pgVars, bgVars, nlVars, uhVars, emVars, ssVars, eyVars, boVars, rlVars, apVars, tsVars>>
    \/ VisitNothing /\ UNCHANGED <<tocVars, ppVars, fmVars, fnVars, locVars, cvVars, pgVars, bgVars, nlVars, uhVars, emVars, ssVars, eyVars, boVars, rlVars, apVars, tsVars>>
    \/ VisitImage /\ UNCHANGED <<tocVars, ppVars, fmVars, fnVars, locVars, cvVars, pgVars, bgVars, nlVars, uhVars, emVars, ssVars, eyVars, boVars, rlVars, apVars, tsVars>>
    \/ CleanReturns /\ UNCHANGED <<tocVars, ppVars, fmVars, fnVars, locVars, cvVars, pgVars, bgVars, nlVars, uhVars, emVars, ssVars, eyVars, boVars, rlVars, apVars, tsVars>>
SpecClean == InitClean /\ [][NextClean]_vars

InitLoc == IdleTOC /\ IdlePP /\ IdleFM /\ IdleFN /\ IdleClean /\ StartLoc /\ IdleCV /\ IdlePG /\ IdleBG /\ IdleNL /\ IdleUH /\ IdleEM /\ IdleSS /\ IdleEY /\ IdleBO /\ IdleRL /\ IdleAP /\ IdleTS
NextLoc ==
    \/ LocateMain /\ UNCHANGED <<tocVars, ppVars, fmVars, fnVars, cleanVars, cvVars, pgVars, bgVars, nlVars, uhVars, emVars, ssVars, eyVars, boVars, rlVars, apVars, tsVars>>
    \/ LocateMainContentScript /\ UNCHANGED <<tocVars, ppVars, fmVars, fnVars, cleanVars, cvVars, pgVars, bgVars, nlVars, uhVars, emVars, ssVars, eyVars, boVars, rlVars, apVars, tsVars>>
    \/ NormalizeRoot /\ UNCHANGED <<tocVars, ppVars, fmVars, fnVars, cleanVars, cvVars, pgVars, bgVars, nlVars, uhVars, emVars, ssVars, eyVars, boVars, rlVars, apVars, tsVars>>
SpecLocate == InitLoc /\ [][NextLoc]_vars

InitCV ==
    IdleTOC /\ IdlePP /\ IdleFM /\ IdleFN /\ IdleClean /\ IdleLoc /\ StartCV /\ IdlePG /\ IdleBG /\ IdleNL /\ IdleUH /\ IdleEM /\ IdleSS /\ IdleEY /\ IdleBO /\ IdleRL /\ IdleAP /\ IdleTS
NextCV ==
    \/ ConvertStepRuns /\ UNCHANGED <<tocVars, ppVars, fmVars, fnVars, cleanVars, locVars, pgVars, bgVars, nlVars, uhVars, emVars, ssVars, eyVars, boVars, rlVars, apVars, tsVars>>
    \/ ConvertStepThrows /\ UNCHANGED <<tocVars, ppVars, fmVars, fnVars, cleanVars, locVars, pgVars, bgVars, nlVars, uhVars, emVars, ssVars, eyVars, boVars, rlVars, apVars, tsVars>>
    \/ ConvertReturns /\ UNCHANGED <<tocVars, ppVars, fmVars, fnVars, cleanVars, locVars, pgVars, bgVars, nlVars, uhVars, emVars, ssVars, eyVars, boVars, rlVars, apVars, tsVars>>
SpecConvert == InitCV /\ [][NextCV]_vars

InitPG ==
    IdleTOC /\ IdlePP /\ IdleFM /\ IdleFN /\ IdleClean /\ IdleLoc /\ IdleCV /\ StartPG /\ IdleBG /\ IdleNL /\ IdleUH /\ IdleEM /\ IdleSS /\ IdleEY /\ IdleBO /\ IdleRL /\ IdleAP /\ IdleTS
NextPG ==
    \/ PageStepRuns /\ UNCHANGED <<tocVars, ppVars, fmVars, fnVars, cleanVars, locVars, cvVars, bgVars, nlVars, uhVars, emVars, ssVars, eyVars, boVars, rlVars, apVars, tsVars>>
    \/ PageStepWarns /\ UNCHANGED <<tocVars, ppVars, fmVars, fnVars, cleanVars, locVars, cvVars, bgVars, nlVars, uhVars, emVars, ssVars, eyVars, boVars, rlVars, apVars, tsVars>>
    \/ PageStepFails /\ UNCHANGED <<tocVars, ppVars, fmVars, fnVars, cleanVars, locVars, cvVars, bgVars, nlVars, uhVars, emVars, ssVars, eyVars, boVars, rlVars, apVars, tsVars>>
    \/ PageWriteText /\ UNCHANGED <<tocVars, ppVars, fmVars, fnVars, cleanVars, locVars, cvVars, bgVars, nlVars, uhVars, emVars, ssVars, eyVars, boVars, rlVars, apVars, tsVars>>
    \/ PageExecCommand /\ UNCHANGED <<tocVars, ppVars, fmVars, fnVars, cleanVars, locVars, cvVars, bgVars, nlVars, uhVars, emVars, ssVars, eyVars, boVars, rlVars, apVars, tsVars>>
    \/ PageReports /\ UNCHANGED <<tocVars, ppVars, fmVars, fnVars, cleanVars, locVars, cvVars, bgVars, nlVars, uhVars, emVars, ssVars, eyVars, boVars, rlVars, apVars, tsVars>>
SpecPage == InitPG /\ [][NextPG]_vars

InitBG ==
    IdleTOC /\ IdlePP /\ IdleFM /\ IdleFN /\ IdleClean /\ IdleLoc /\ IdleCV /\ IdlePG /\ StartBG /\ IdleNL /\ IdleUH /\ IdleEM /\ IdleSS /\ IdleEY /\ IdleBO /\ IdleRL /\ IdleAP /\ IdleTS
OtherThanBG == <<tocVars, ppVars, fmVars, fnVars, cleanVars, locVars, cvVars, pgVars, nlVars, uhVars, emVars, ssVars, eyVars, boVars, rlVars, apVars, tsVars>>
NextBG ==
    \/ ListenerReceives /\ UNCHANGED OtherThanBG
    \/ QueryActiveTab /\ UNCHANGED OtherThanBG
    \/ EnterExecuteConversion /\ UNCHANGED OtherThanBG
    \/ FocusWindow /\ UNCHANGED OtherThanBG
    \/ ActivateTab /\ UNCHANGED OtherThanBG
    \/ InjectScript /\ UNCHANGED OtherThanBG
    \/ RespondOk /\ UNCHANGED OtherThanBG
    \/ RespondFailure /\ UNCHANGED OtherThanBG
SpecBackground == InitBG /\ [][NextBG]_vars

InitNL ==
    IdleTOC /\ IdlePP /\ IdleFM /\ IdleFN /\ IdleClean /\ IdleLoc /\ IdleCV /\ IdlePG /\ IdleBG /\ StartNL /\ IdleUH /\ IdleEM /\ IdleSS /\ IdleEY /\ IdleBO /\ IdleRL /\ IdleAP /\ IdleTS
OtherThanNL == <<tocVars, ppVars, fmVars, fnVars, cleanVars, locVars, cvVars, pgVars, bgVars, uhVars, emVars, ssVars, eyVars, boVars, rlVars, apVars, tsVars>>
NextNL ==
    \/ NormalizeSkips /\ UNCHANGED OtherThanNL
    \/ NormalizeParseFails /\ UNCHANGED OtherThanNL
    \/ NormalizeRewrites /\ UNCHANGED OtherThanNL
SpecNormalizeLinks == InitNL /\ [][NextNL]_vars

InitUH ==
    IdleTOC /\ IdlePP /\ IdleFM /\ IdleFN /\ IdleClean /\ IdleLoc /\ IdleCV /\ IdlePG /\ IdleBG /\ IdleNL /\ StartUH /\ IdleEM /\ IdleSS /\ IdleEY /\ IdleBO /\ IdleRL /\ IdleAP /\ IdleTS
OtherThanUH == <<tocVars, ppVars, fmVars, fnVars, cleanVars, locVars, cvVars, pgVars, bgVars, nlVars, emVars, ssVars, eyVars, boVars, rlVars, apVars, tsVars>>
NextUH ==
    \/ UnwrapSkipsCount /\ UNCHANGED OtherThanUH
    \/ UnwrapSkipsTag /\ UNCHANGED OtherThanUH
    \/ UnwrapReplaces /\ UNCHANGED OtherThanUH
SpecUnwrap == InitUH /\ [][NextUH]_vars

InitEM ==
    IdleTOC /\ IdlePP /\ IdleFM /\ IdleFN /\ IdleClean /\ IdleLoc /\ IdleCV /\ IdlePG /\ IdleBG /\ IdleNL /\ IdleUH /\ StartEM /\ IdleSS /\ IdleEY /\ IdleBO /\ IdleRL /\ IdleAP /\ IdleTS
OtherThanEM == <<tocVars, ppVars, fmVars, fnVars, cleanVars, locVars, cvVars, pgVars, bgVars, nlVars, uhVars, ssVars, eyVars, boVars, rlVars, apVars, tsVars>>
NextEM ==
    \/ DescribeMedia /\ UNCHANGED OtherThanEM
    \/ DescribeReturns /\ UNCHANGED OtherThanEM
SpecMedia == InitEM /\ [][NextEM]_vars


InitSS ==
    IdleTOC /\ IdlePP /\ IdleFM /\ IdleFN /\ IdleClean /\ IdleLoc /\ IdleCV /\ IdlePG /\ IdleBG /\ IdleNL /\ IdleUH /\ IdleEM /\ StartSS /\ IdleEY /\ IdleBO /\ IdleRL /\ IdleAP /\ IdleTS
OtherThanSS == <<tocVars, ppVars, fmVars, fnVars, cleanVars, locVars, cvVars, pgVars, bgVars, nlVars, uhVars, emVars, eyVars, boVars, rlVars, apVars, tsVars>>
NextSS ==
    \/ SrcsetParses /\ UNCHANGED OtherThanSS
    \/ SrcsetReturnsNull /\ UNCHANGED OtherThanSS
    \/ SrcsetSortsAndReturns /\ UNCHANGED OtherThanSS
SpecSrcset == InitSS /\ [][NextSS]_vars


InitEY ==
    IdleTOC /\ IdlePP /\ IdleFM /\ IdleFN /\ IdleClean /\ IdleLoc /\ IdleCV /\ IdlePG /\ IdleBG /\ IdleNL /\ IdleUH /\ IdleEM /\ IdleSS /\ StartEY /\ IdleBO /\ IdleRL /\ IdleAP /\ IdleTS
OtherThanEY == <<tocVars, ppVars, fmVars, fnVars, cleanVars, locVars, cvVars, pgVars, bgVars, nlVars, uhVars, emVars, ssVars, boVars, rlVars, apVars, tsVars>>
NextEY == BuildFrontMatter /\ UNCHANGED OtherThanEY
SpecEscapeYaml == InitEY /\ [][NextEY]_vars


InitBO ==
    IdleTOC /\ IdlePP /\ IdleFM /\ IdleFN /\ IdleClean /\ IdleLoc /\ IdleCV /\ IdlePG /\ IdleBG /\ IdleNL /\ IdleUH /\ IdleEM /\ IdleSS /\ IdleEY /\ StartBO /\ IdleRL /\ IdleAP /\ IdleTS
OtherThanBO == <<tocVars, ppVars, fmVars, fnVars, cleanVars, locVars, cvVars, pgVars, bgVars, nlVars, uhVars, emVars, ssVars, eyVars, rlVars, apVars, tsVars>>
NextBO == BuildOutput /\ UNCHANGED OtherThanBO
SpecBuildOutput == InitBO /\ [][NextBO]_vars


InitRL ==
    IdleTOC /\ IdlePP /\ IdleFM /\ IdleFN /\ IdleClean /\ IdleLoc /\ IdleCV /\ IdlePG /\ IdleBG /\ IdleNL /\ IdleUH /\ IdleEM /\ IdleSS /\ IdleEY /\ IdleBO /\ StartRL /\ IdleAP /\ IdleTS
OtherThanRL == <<tocVars, ppVars, fmVars, fnVars, cleanVars, locVars, cvVars, pgVars, bgVars, nlVars, uhVars, emVars, ssVars, eyVars, boVars, apVars, tsVars>>
NextRL ==
    \/ CallStarts /\ UNCHANGED OtherThanRL
    \/ StorageGetResolves /\ UNCHANGED OtherThanRL
    \/ LoadAssigns /\ UNCHANGED OtherThanRL
    \/ SaveWrites /\ UNCHANGED OtherThanRL
    \/ SaveUpdatesCache /\ UNCHANGED OtherThanRL
    \/ RemoveWrites /\ UNCHANGED OtherThanRL
    \/ RemoveUpdatesCache /\ UNCHANGED OtherThanRL
    \/ ResetRemoves /\ UNCHANGED OtherThanRL
    \/ ResetRestoresCache /\ UNCHANGED OtherThanRL
SpecRules == InitRL /\ [][NextRL]_vars


InitAP ==
    IdleTOC /\ IdlePP /\ IdleFM /\ IdleFN /\ IdleClean /\ IdleLoc /\ IdleCV /\ IdlePG /\ IdleBG /\ IdleNL /\ IdleUH /\ IdleEM /\ IdleSS /\ IdleEY /\ IdleBO /\ IdleRL /\ StartAP /\ IdleTS
OtherThanAP == <<tocVars, ppVars, fmVars, fnVars, cleanVars, locVars, cvVars, pgVars, bgVars, nlVars, uhVars, emVars, ssVars, eyVars, boVars, rlVars, tsVars>>
NextAP == ConvertAssembles /\ UNCHANGED OtherThanAP
SpecAppendix == InitAP /\ [][NextAP]_vars


InitTS ==
    IdleTOC /\ IdlePP /\ IdleFM /\ IdleFN /\ IdleClean /\ IdleLoc /\ IdleCV /\ IdlePG /\ IdleBG /\ IdleNL /\ IdleUH /\ IdleEM /\ IdleSS /\ IdleEY /\ IdleBO /\ IdleRL /\ IdleAP /\ StartTS
OtherThanTS == <<tocVars, ppVars, fmVars, fnVars, cleanVars, locVars, cvVars, pgVars, bgVars, nlVars, uhVars, emVars, ssVars, eyVars, boVars, rlVars, apVars>>
NextTS ==
    \/ ShowToast /\ UNCHANGED OtherThanTS
    \/ TimerFires /\ UNCHANGED OtherThanTS
    \/ EffectRuns /\ UNCHANGED OtherThanTS
    \/ FlushStep /\ UNCHANGED OtherThanTS
    \/ FlushEnds /\ UNCHANGED OtherThanTS
    \/ EffectCleanup /\ UNCHANGED OtherThanTS
\* The browser runs every due timer, React runs every scheduled effect, and a
\* running flushQueue loop goes on to its end.
SpecToast ==
    /\ InitTS
    /\ [][NextTS]_vars
    /\ WF_vars(TimerFires /\ UNCHANGED OtherThanTS)
    /\ WF_vars(EffectRuns /\ UNCHANGED OtherThanTS)
    /\ WF_vars(FlushStep /\ UNCHANGED OtherThanTS)
    /\ WF_vars(FlushEnds /\ UNCHANGED OtherThanTS)

=============================================================================
